---- MODULE Spec2Model ----
(***************************************************************************)
(* A model of the soju bouncer core: the service command tokenizer and     *)
(* dispatcher (service.go), the channel mode and membership helpers        *)
(* (bridge.go, ircutil), and the SQLite store (db_sqlite.go).              *)
(*                                                                         *)
(* Strings the code inspects character by character are sequences of      *)
(* one-character strings; strings it only compares are TLA+ strings.       *)
(***************************************************************************)
EXTENDS Integers, Sequences, FiniteSets, TLC

VARIABLES
    swText,     \* splitWords: the argument s
    swOut,      \* splitWords: the value returned, or NotCalled
    getIn,      \* serviceCommandSet.Get: receiver, params, map iteration order
    getOut,     \* serviceCommandSet.Get: the values returned, or NotCalled
    svcIn,      \* handleServicePRIVMSG: dc.user.Admin, text, map iteration order
    svcOut,     \* handleServicePRIVMSG: messages sent to dc, handler invoked
    availableMemberships,   \* upstreamConn.availableMemberships (PREFIX)
    chMembers,  \* upstreamChannel.Members: nick -> Memberships
    membLast,   \* the last Memberships.Add / Remove call
    chModes,    \* upstreamChannel.modes: nil, or mode letter -> argument
    modeIn,     \* applyChannelModes: modeStr and arguments
    modeOut,    \* applyChannelModes: the values returned, or NotCalled
    dbUser,     \* the rows of table User
    dbNetwork,  \* the rows of table Network
    dbChannel,  \* the rows of table Channel
    dbReceipt,  \* the rows of table DeliveryReceipt
    dbLast,     \* one call on the SqliteDB: its arguments and results
    events,     \* u.events of every user: the events in the inbox, oldest first
    bcOrder,    \* server notice: the order in which forEachUser visits the users
    bcLog,      \* server notice: what the select did for each user visited so far, whether the context was done and which inboxes were full
    bcCtxDone,  \* server notice: the request context is cancelled
    bcErr,      \* server notice: the closure's variable err
    bcOut,      \* server notice: the error returned, or NotCalled
    updPc,      \* per user, where its actor is: "run", or in handleUserUpdate
    updTarget,  \* per user, the user its handleUserUpdate is aimed at
    updCtxDone, \* per user, the context of the request it handles is cancelled
    updDone,    \* per user, the channel done its handleUserUpdate made
    updOut,     \* per user, what its handleUserUpdate returned last
    upVersion,  \* PRAGMA user_version of the database file
    upSchema,   \* the scripts the database file's schema results from, in order
    upLast,     \* the last call of upgrade: what it found and the error returned
    helpIn,     \* handleServiceHelp: dc.user.Admin, params, map iteration order
    helpOut,    \* handleServiceHelp: the messages sent to dc and the error returned
    uuUsers,    \* the user records by username: password, realname, admin
    uuIn,       \* handleUserUpdate: dc.user.Username and params
    uuOut,      \* handleUserUpdate: the error returned, or NotCalled
    saslNet,    \* net.SASL of the network in memory
    saslRow,    \* the sasl_ columns of the network's row
    saslFailed, \* a StoreNetwork of a SASL command has failed
    nuNet,      \* the network record of the user's network
    nuIn,       \* handleServiceNetworkUpdate: the parsed flag set and whether the network is known
    nuOut,      \* handleServiceNetworkUpdate: the error returned, or NotCalled
    snIn,       \* sendNames: the length of the channel's name and the members' entries in the order ranged over
    snI,        \* sendNames: the index of the next member
    snBuf,      \* sendNames: the entries in buf
    snSent,     \* sendNames: the messages sent, in order
    udPc,       \* user delete: where each caller's handler stands
    udTarget,   \* user delete: the username each caller has given
    udErr,      \* user delete: the error each handler has returned
    udRunning,  \* whether each user's actor is running
    udInbox,    \* the stop events queued in each user's inbox
    udDB,       \* the tables of the store
    udLog,      \* user delete: the stops asked for and the DeleteUser calls made
    lkPc,       \* db.lock: where each goroutine's call of a store method stands
    lkOp,       \* db.lock: the store method each goroutine has called
    lkReaders,  \* db.lock: the number of read locks held
    lkWriter,   \* db.lock: the goroutine that holds the write lock, or none
    lkPending,  \* db.lock: the goroutine whose Lock waits for the readers to leave, or none
    cuCh,       \* the channel held in memory: its filters and DetachAfter
    cuRow,      \* the channel's row: its filters and detach_after
    cuLast,     \* handleServiceChannelUpdate: the flags, the error returned and the channel before, or NotCalled
    fcIn,       \* forwardChannel: the channel's complete flag, Topic and TopicWho
    fcPc,       \* forwardChannel: where the call stands
    jnIn,       \* ircutil.Join: the channels and keys given
    jnOut,      \* ircutil.Join: the messages returned
    ncNets,     \* network create/update: the user's networks in memory
    ncRows,     \* network create/update: the Network rows of the store
    ncIn,       \* network create/update: the command and its parsed flags
    ncOut       \* network create/update: the call made

wordsVars == <<swText, swOut>>
getVars == <<getIn, getOut>>
svcVars == <<svcIn, svcOut>>
chanVars == <<availableMemberships, chMembers>>
membVars == <<membLast>>
modeVars == <<chModes, modeIn, modeOut>>
dbVars == <<dbUser, dbNetwork, dbChannel, dbReceipt, dbLast>>

inboxVars == <<events>>
bcVars == <<bcOrder, bcLog, bcCtxDone, bcErr, bcOut>>
updVars == <<updPc, updTarget, updCtxDone, updDone, updOut>>

upVars == <<upVersion, upSchema, upLast>>

helpVars == <<helpIn, helpOut>>

uuVars == <<uuUsers, uuIn, uuOut>>

saslVars == <<saslNet, saslRow, saslFailed>>

nuVars == <<nuNet, nuIn, nuOut>>

namesVars == <<snIn, snI, snBuf, snSent>>

udVars == <<udPc, udTarget, udErr, udRunning, udInbox, udDB, udLog>>

lockVars == <<lkPc, lkOp, lkReaders, lkWriter, lkPending>>

cuVars == <<cuCh, cuRow, cuLast>>

fcVars == <<fcIn, fcPc>>

joinVars == <<jnIn, jnOut>>

ncVars == <<ncNets, ncRows, ncIn, ncOut>>

vars == <<wordsVars, getVars, svcVars, chanVars, membVars, modeVars, dbVars,
          inboxVars, bcVars, updVars,
          upVars,
          helpVars,
          uuVars,
          saslVars,
          nuVars,
          namesVars,
          udVars,
          lockVars,
          cuVars,
          fcVars,
          joinVars,
          ncVars>>

NotCalled == [called |-> FALSE]

\* The parts of the program a specification leaves alone: at rest initially,
\* and unchanged by every step.
IdleWords == swText = <<>> /\ swOut = NotCalled
IdleGet == getIn = <<>> /\ getOut = NotCalled
IdleSvc == svcIn = <<>> /\ svcOut = NotCalled
IdleChan == availableMemberships = <<>> /\ chMembers = <<>>
IdleMemb == membLast = NotCalled
IdleModes == chModes = <<>> /\ modeIn = <<>> /\ modeOut = NotCalled
IdleDB ==
    /\ dbUser = {} /\ dbNetwork = {} /\ dbChannel = {} /\ dbReceipt = {}
    /\ dbLast = NotCalled

IdleInbox == events = <<>>
IdleBc ==
    /\ bcOrder = <<>> /\ bcLog = <<>> /\ bcCtxDone = FALSE
    /\ bcErr = "nil" /\ bcOut = NotCalled
IdleUpd ==
    /\ updPc = <<>> /\ updTarget = <<>> /\ updCtxDone = <<>>
    /\ updDone = <<>> /\ updOut = <<>>

IdleUp ==
    /\ upVersion = 0
    /\ upSchema = <<>>
    /\ upLast = NotCalled

IdleHelp ==
    /\ helpIn = <<>>
    /\ helpOut = NotCalled

IdleUserUpd ==
    /\ uuUsers = <<>>
    /\ uuIn = <<>>
    /\ uuOut = NotCalled

IdleSASL ==
    /\ saslNet = <<>>
    /\ saslRow = <<>>
    /\ saslFailed = FALSE

IdleNetUpd ==
    /\ nuNet = <<>>
    /\ nuIn = <<>>
    /\ nuOut = NotCalled

IdleNames ==
    /\ snIn = <<>>
    /\ snI = 0
    /\ snBuf = <<>>
    /\ snSent = <<>>

IdleUserDel ==
    /\ udPc = <<>>
    /\ udTarget = <<>>
    /\ udErr = <<>>
    /\ udRunning = <<>>
    /\ udInbox = <<>>
    /\ udDB = <<>>
    /\ udLog = {}

IdleLock ==
    /\ lkPc = <<>>
    /\ lkOp = <<>>
    /\ lkReaders = 0
    /\ lkWriter = "none"
    /\ lkPending = "none"

IdleChanUpd ==
    /\ cuCh = <<>>
    /\ cuRow = <<>>
    /\ cuLast = NotCalled

IdleForward ==
    /\ fcIn = <<>>
    /\ fcPc = "idle"

IdleJoin ==
    /\ jnIn = <<>>
    /\ jnOut = NotCalled

IdleNetwork ==
    /\ ncNets = <<>>
    /\ ncRows = <<>>
    /\ ncIn = <<>>
    /\ ncOut = NotCalled

Idle(part) ==
    /\ IF part = "words" THEN TRUE ELSE IdleWords
    /\ IF part = "get" THEN TRUE ELSE IdleGet
    /\ IF part = "svc" THEN TRUE ELSE IdleSvc
    /\ IF part \in {"memb", "modes"} THEN TRUE ELSE IdleChan
    /\ IF part = "memb" THEN TRUE ELSE IdleMemb
    /\ IF part = "modes" THEN TRUE ELSE IdleModes
    /\ IF part = "db" THEN TRUE ELSE IdleDB
    /\ IF part \in {"bc", "upd"} THEN TRUE ELSE IdleInbox
    /\ IF part = "bc" THEN TRUE ELSE IdleBc
    /\ IF part = "upd" THEN TRUE ELSE IdleUpd
    /\ IF part = "up" THEN TRUE ELSE IdleUp
    /\ IF part = "help" THEN TRUE ELSE IdleHelp
    /\ IF part = "uu" THEN TRUE ELSE IdleUserUpd
    /\ IF part = "sasl" THEN TRUE ELSE IdleSASL
    /\ IF part = "nu" THEN TRUE ELSE IdleNetUpd
    /\ IF part \in {"names", "fc"} THEN TRUE ELSE IdleNames
    /\ IF part = "ud" THEN TRUE ELSE IdleUserDel
    /\ IF part = "lock" THEN TRUE ELSE IdleLock
    /\ IF part = "cu" THEN TRUE ELSE IdleChanUpd
    /\ IF part = "fc" THEN TRUE ELSE IdleForward
    /\ IF part = "join" THEN TRUE ELSE IdleJoin
    /\ IF part = "nc" THEN TRUE ELSE IdleNetwork

Frame(part) ==
    /\ IF part = "words" THEN TRUE ELSE UNCHANGED wordsVars
    /\ IF part = "get" THEN TRUE ELSE UNCHANGED getVars
    /\ IF part = "svc" THEN TRUE ELSE UNCHANGED svcVars
    /\ IF part \in {"memb", "modes"} THEN TRUE ELSE UNCHANGED chanVars
    /\ IF part = "memb" THEN TRUE ELSE UNCHANGED membVars
    /\ IF part = "modes" THEN TRUE ELSE UNCHANGED modeVars
    /\ IF part = "db" THEN TRUE ELSE UNCHANGED dbVars
    /\ IF part \in {"bc", "upd"} THEN TRUE ELSE UNCHANGED inboxVars
    /\ IF part = "bc" THEN TRUE ELSE UNCHANGED bcVars
    /\ IF part = "upd" THEN TRUE ELSE UNCHANGED updVars
    /\ IF part = "up" THEN TRUE ELSE UNCHANGED upVars
    /\ IF part = "help" THEN TRUE ELSE UNCHANGED helpVars
    /\ IF part = "uu" THEN TRUE ELSE UNCHANGED uuVars
    /\ IF part = "sasl" THEN TRUE ELSE UNCHANGED saslVars
    /\ IF part = "nu" THEN TRUE ELSE UNCHANGED nuVars
    /\ IF part \in {"names", "fc"} THEN TRUE ELSE UNCHANGED namesVars
    /\ IF part = "ud" THEN TRUE ELSE UNCHANGED udVars
    /\ IF part = "lock" THEN TRUE ELSE UNCHANGED lockVars
    /\ IF part = "cu" THEN TRUE ELSE UNCHANGED cuVars
    /\ IF part = "fc" THEN TRUE ELSE UNCHANGED fcVars
    /\ IF part = "join" THEN TRUE ELSE UNCHANGED joinVars
    /\ IF part = "nc" THEN TRUE ELSE UNCHANGED ncVars

----------------------------------------------------------------------------
(* service.go: splitWords                                                  *)

\* Longest command line given to splitWords.
MaxTextLen == 5

BACKSLASH == "\\"
DQUOTE == "\""
SQUOTE == "'"
SPACE == " "

\* The characters command lines are built from.
TextChars == {"a", SPACE, BACKSLASH, DQUOTE, SQUOTE}

Texts(n) == UNION {[1..k -> TextChars] : k \in 0..n}

\* unicode.IsSpace, on the characters of the model.
IsSpace(r) == r = SPACE

\* The locals of splitWords before the loop.
splitWordsInit ==
    [words |-> <<>>, lastWord |-> <<>>, escape |-> FALSE, prev |-> SPACE,
     wordDelim |-> SPACE]

\* One iteration of the loop over the runes of s.
splitWordsStep(st, r) ==
    LET st1 ==
          IF st.escape
          THEN [st EXCEPT !.lastWord = Append(@, r), !.escape = FALSE]
          ELSE IF r = BACKSLASH
          THEN [st EXCEPT !.escape = TRUE]
          ELSE IF st.wordDelim = SPACE /\ IsSpace(r)
          THEN IF ~IsSpace(st.prev)
               THEN [st EXCEPT !.words = Append(@, st.lastWord),
                               !.lastWord = <<>>]
               ELSE st
          ELSE IF r = st.wordDelim
          THEN [st EXCEPT !.wordDelim = SPACE]
          ELSE IF r = DQUOTE \/ r = SQUOTE
          THEN IF st.wordDelim = SPACE
               THEN [st EXCEPT !.wordDelim = r]
               ELSE [st EXCEPT !.lastWord = Append(@, r)]
          ELSE [st EXCEPT !.lastWord = Append(@, r)]
    IN [st1 EXCEPT !.prev = r]

RECURSIVE splitWordsLoop(_, _, _)
splitWordsLoop(s, i, st) ==
    IF i > Len(s) THEN st
    ELSE splitWordsLoop(s, i + 1, splitWordsStep(st, s[i]))

\* splitWords that returns the words of a line ending in a backslash.
splitWordsNoEscapeTest(s) ==
    LET st == splitWordsLoop(s, 1, splitWordsInit)
        words == IF ~IsSpace(st.prev) THEN Append(st.words, st.lastWord)
                 ELSE st.words
    IN IF st.wordDelim # SPACE
       THEN [called |-> TRUE, words |-> <<>>, err |-> "unterminated quoted string"]
       ELSE [called |-> TRUE, words |-> words, err |-> "nil"]

\* splitWords(s): the words and the error ("nil" for none).
splitWords(s) ==
    LET st == splitWordsLoop(s, 1, splitWordsInit)
        words == IF ~IsSpace(st.prev) THEN Append(st.words, st.lastWord)
                 ELSE st.words
    IN IF st.wordDelim # SPACE
       THEN [called |-> TRUE, words |-> <<>>, err |-> "unterminated quoted string"]
       ELSE IF st.escape
       THEN [called |-> TRUE, words |-> <<>>, err |-> "unterminated backslash sequence"]
       ELSE [called |-> TRUE, words |-> words, err |-> "nil"]

InitWords ==
    /\ swText \in Texts(MaxTextLen)
    /\ swOut = NotCalled
    /\ Idle("words")

SplitWordsCall ==
    /\ ~swOut.called
    /\ swOut' = splitWords(swText)
    /\ UNCHANGED swText
    /\ Frame("words")

NextWords == SplitWordsCall

SpecWords == InitWords /\ [][NextWords]_vars

----------------------------------------------------------------------------
(* service.go: the command tree and serviceCommandSet.Get                  *)

\* The command tree built by init(): each command set is the sequence of its
\* entries in source order (a Go map: the order carries no meaning); handle is
\* the handler's name, "nil" for none.
serviceCommands ==
    <<
      [name |-> <<"h", "e", "l", "p">>,
       handle |-> "handleServiceHelp", admin |-> FALSE, children |-> <<>>],
      [name |-> <<"n", "e", "t", "w", "o", "r", "k">>,
       handle |-> "nil", admin |-> FALSE, children |->
         <<
           [name |-> <<"c", "r", "e", "a", "t", "e">>,
            handle |-> "handleServiceNetworkCreate", admin |-> FALSE, children |-> <<>>],
           [name |-> <<"s", "t", "a", "t", "u", "s">>,
            handle |-> "handleServiceNetworkStatus", admin |-> FALSE, children |-> <<>>],
           [name |-> <<"u", "p", "d", "a", "t", "e">>,
            handle |-> "handleServiceNetworkUpdate", admin |-> FALSE, children |-> <<>>],
           [name |-> <<"d", "e", "l", "e", "t", "e">>,
            handle |-> "handleServiceNetworkDelete", admin |-> FALSE, children |-> <<>>],
           [name |-> <<"q", "u", "o", "t", "e">>,
            handle |-> "handleServiceNetworkQuote", admin |-> FALSE, children |-> <<>>]
         >>],
      [name |-> <<"c", "e", "r", "t", "f", "p">>,
       handle |-> "nil", admin |-> FALSE, children |->
         <<
           [name |-> <<"g", "e", "n", "e", "r", "a", "t", "e">>,
            handle |-> "handleServiceCertFPGenerate", admin |-> FALSE, children |-> <<>>],
           [name |-> <<"f", "i", "n", "g", "e", "r", "p", "r", "i", "n", "t">>,
            handle |-> "handleServiceCertFPFingerprints", admin |-> FALSE, children |-> <<>>]
         >>],
      [name |-> <<"s", "a", "s", "l">>,
       handle |-> "nil", admin |-> FALSE, children |->
         <<
           [name |-> <<"s", "e", "t", "-", "p", "l", "a", "i", "n">>,
            handle |-> "handleServiceSASLSetPlain", admin |-> FALSE, children |-> <<>>],
           [name |-> <<"r", "e", "s", "e", "t">>,
            handle |-> "handleServiceSASLReset", admin |-> FALSE, children |-> <<>>]
         >>],
      [name |-> <<"u", "s", "e", "r">>,
       handle |-> "nil", admin |-> FALSE, children |->
         <<
           [name |-> <<"c", "r", "e", "a", "t", "e">>,
            handle |-> "handleUserCreate", admin |-> TRUE, children |-> <<>>],
           [name |-> <<"u", "p", "d", "a", "t", "e">>,
            handle |-> "handleUserUpdate", admin |-> FALSE, children |-> <<>>],
           [name |-> <<"d", "e", "l", "e", "t", "e">>,
            handle |-> "handleUserDelete", admin |-> TRUE, children |-> <<>>]
         >>],
      [name |-> <<"c", "h", "a", "n", "n", "e", "l">>,
       handle |-> "nil", admin |-> FALSE, children |->
         <<
           [name |-> <<"s", "t", "a", "t", "u", "s">>,
            handle |-> "handleServiceChannelStatus", admin |-> FALSE, children |-> <<>>],
           [name |-> <<"u", "p", "d", "a", "t", "e">>,
            handle |-> "handleServiceChannelUpdate", admin |-> FALSE, children |-> <<>>]
         >>],
      [name |-> <<"s", "e", "r", "v", "e", "r">>,
       handle |-> "nil", admin |-> TRUE, children |->
         <<
           [name |-> <<"s", "t", "a", "t", "u", "s">>,
            handle |-> "handleServiceServerStatus", admin |-> TRUE, children |-> <<>>],
           [name |-> <<"n", "o", "t", "i", "c", "e">>,
            handle |-> "handleServiceServerNotice", admin |-> TRUE, children |-> <<>>]
         >>]
    >>

\* A command set in which one name is a prefix of a sibling's name: the sasl
\* subcommands with a "set" beside "set-plain". An input of Get only.
overlapCommands ==
    <<
      [name |-> <<"s", "e", "t">>,
       handle |-> "handleSet", admin |-> FALSE, children |-> <<>>],
      [name |-> <<"s", "e", "t", "-", "p", "l", "a", "i", "n">>,
       handle |-> "handleServiceSASLSetPlain", admin |-> FALSE, children |-> <<>>],
      [name |-> <<"r", "e", "s", "e", "t">>,
       handle |-> "handleServiceSASLReset", admin |-> FALSE, children |-> <<>>]
    >>

\* The nil *serviceCommand.
NoCommand == [name |-> <<>>, handle |-> "nil", admin |-> FALSE, children |-> <<>>]

\* strings.HasPrefix(k, name)
HasPrefix(k, name) == Len(name) <= Len(k) /\ SubSeq(k, 1, Len(name)) = name

\* The order in which `for k := range cmds` visits the n keys of a map: Go
\* leaves it unspecified and starts the walk at a random key. The orders
\* modelled are the n rotations of the source order.
IterOrder(n, rot) == [i \in 1..n |-> ((i - 1 + rot) % n) + 1]

\* The prefix loop of Get when the first match ends the search: a missing
\* ambiguity check.
RECURSIVE getRangeFirstMatch(_, _, _, _, _)
getRangeFirstMatch(cmds, ord, i, name, acc) ==
    IF i > Len(cmds) THEN [amb |-> FALSE, found |-> acc.found, cmd |-> acc.cmd]
    ELSE LET k == cmds[ord[i]]
         IN IF ~HasPrefix(k.name, name)
            THEN getRangeFirstMatch(cmds, ord, i + 1, name, acc)
            ELSE [amb |-> FALSE, found |-> TRUE, cmd |-> k]

\* The loop `for k := range cmds` of Get, from the i-th key visited on; acc
\* is the local cmd (found: cmd != nil).
RECURSIVE getRange(_, _, _, _, _)
getRange(cmds, ord, i, name, acc) ==
    IF i > Len(cmds) THEN [amb |-> FALSE, found |-> acc.found, cmd |-> acc.cmd]
    ELSE LET k == cmds[ord[i]]
         IN IF ~HasPrefix(k.name, name)
            THEN getRange(cmds, ord, i + 1, name, acc)
            ELSE IF acc.found
            THEN [amb |-> TRUE, found |-> FALSE, cmd |-> NoCommand]
            ELSE getRange(cmds, ord, i + 1, name, [found |-> TRUE, cmd |-> k])

\* cmd, ok := cmds[name], then the prefix loop when !ok.
getLookup(cmds, name, rot) ==
    IF \E i \in 1..Len(cmds) : cmds[i].name = name
    THEN [amb |-> FALSE, found |-> TRUE,
          cmd |-> cmds[CHOOSE i \in 1..Len(cmds) : cmds[i].name = name]]
    ELSE getRange(cmds, IterOrder(Len(cmds), rot), 1, name,
                  [found |-> FALSE, cmd |-> NoCommand])

\* cmds.Get(params): the command, the remaining params and the error.
RECURSIVE Get(_, _, _)
Get(cmds, params, rot) ==
    IF Len(params) = 0
    THEN [called |-> TRUE, cmd |-> NoCommand, params |-> <<>>,
          err |-> "no command specified", name |-> <<>>]
    ELSE LET name == params[1]
             rest == Tail(params)
             look == getLookup(cmds, name, rot)
         IN IF look.amb
            THEN [called |-> TRUE, cmd |-> NoCommand, params |-> rest,
                  err |-> "ambiguous", name |-> name]
            ELSE IF ~look.found
            THEN [called |-> TRUE, cmd |-> NoCommand, params |-> rest,
                  err |-> "not found", name |-> name]
            ELSE IF Len(rest) = 0 \/ Len(look.cmd.children) = 0
            THEN [called |-> TRUE, cmd |-> look.cmd, params |-> rest,
                  err |-> "nil", name |-> <<>>]
            ELSE Get(look.cmd.children, rest, rot)

\* Longest abbreviation (in characters) tried for a command name.
MaxPrefixLen == 2

\* The names of a command set and of its subcommands.
CommandNames(cmds) ==
    {cmds[i].name : i \in 1..Len(cmds)} \cup
    UNION {{cmds[i].children[j].name : j \in 1..Len(cmds[i].children)} :
           i \in 1..Len(cmds)}

\* The words tried as command names: the names, their abbreviations, the
\* empty word and a word that matches nothing.
InputWords(cmds) ==
    CommandNames(cmds) \cup
    {SubSeq(n, 1, k) : n \in CommandNames(cmds), k \in 0..MaxPrefixLen} \cup
    {<<"x">>}

\* Command paths of at most two names, with or without a further argument.
InputParams(cmds) ==
    LET W == InputWords(cmds)
        paths == {<<>>} \cup {<<a>> : a \in W} \cup {<<a, b>> : a \in W, b \in W}
    IN paths \cup {p \o <<<<"x">>>> : p \in paths}

CommandSets == [service |-> serviceCommands, overlap |-> overlapCommands]

InitGet ==
    /\ getIn \in UNION {{[cmds |-> c, params |-> p, rot |-> r] :
                            p \in InputParams(CommandSets[c]),
                            r \in 0..(Len(CommandSets[c]) - 1)} :
                         c \in DOMAIN CommandSets}
    /\ getOut = NotCalled
    /\ Idle("get")

GetCall ==
    /\ ~getOut.called
    /\ getOut' = Get(CommandSets[getIn.cmds], getIn.params, getIn.rot)
    /\ UNCHANGED getIn
    /\ Frame("get")

NextGet == GetCall

SpecGet == InitGet /\ [][NextGet]_vars

----------------------------------------------------------------------------
(* service.go: handleServicePRIVMSG                                        *)

\* The byte order of the characters command names are made of.
CharOrder == <<"-", "a", "b", "c", "d", "e", "f", "g", "h", "i", "j", "k", "l",
               "m", "n", "o", "p", "q", "r", "s", "t", "u", "v", "w", "x", "y",
               "z">>

CharRank(c) == CHOOSE i \in 1..Len(CharOrder) : CharOrder[i] = c

\* a < b on strings.
RECURSIVE StrLess(_, _)
StrLess(a, b) ==
    IF b = <<>> THEN FALSE
    ELSE IF a = <<>> THEN TRUE
    ELSE IF Head(a) = Head(b) THEN StrLess(Tail(a), Tail(b))
    ELSE CharRank(Head(a)) < CharRank(Head(b))

\* cmds.Names(): the indexes of the entries, sorted by name (sort.Strings).
RECURSIVE NamesFrom(_, _)
NamesFrom(cmds, left) ==
    IF left = {} THEN <<>>
    ELSE LET i == CHOOSE i \in left :
                    \A j \in left \ {i} : StrLess(cmds[i].name, cmds[j].name)
         IN <<i>> \o NamesFrom(cmds, left \ {i})

Names(cmds) == NamesFrom(cmds, 1..Len(cmds))

\* appendServiceCommandSetHelp(cmds, prefix, admin, &l): the entries appended
\* to l, each the words of a command.
RECURSIVE appendServiceCommandSetHelp(_, _, _)
RECURSIVE appendHelpFrom(_, _, _, _, _)
appendHelpFrom(cmds, order, i, prefix, admin) ==
    IF i > Len(order) THEN <<>>
    ELSE LET cmd == cmds[order[i]]
             words == Append(prefix, cmd.name)
             here == IF cmd.admin /\ ~admin THEN <<>>
                     ELSE IF Len(cmd.children) = 0 THEN <<words>>
                     ELSE appendServiceCommandSetHelp(cmd.children, words, admin)
         IN here \o appendHelpFrom(cmds, order, i + 1, prefix, admin)

appendServiceCommandSetHelp(cmds, prefix, admin) ==
    appendHelpFrom(cmds, Names(cmds), 1, prefix, admin)

\* A PRIVMSG sent by sendServicePRIVMSG: its text is prefix \o body, list
\* holds the commands an "available commands: " line names.
ServiceMsg(prefix, body) == [prefix |-> prefix, body |-> body, list |-> <<>>]

AdminRequired == ServiceMsg("error: ", "you must be an admin to use this command")

\* What a call of cmd.handle may return.
HandlerErrors == {"nil", "handler error"}

\* Handlers that reply with what they have done before they fail.
HandlerRepliesThenFails(handle, herr) ==
    IF handle = "handleServiceServerNotice" THEN <<>>
    ELSE <<ServiceMsg("", "reply of the handler")>>

\* The replies a handler sends itself: every handler returns its errors
\* before its first sendServicePRIVMSG; one that succeeds reports what it
\* has done, but for server notice.
HandlerReplies(handle, herr) ==
    IF herr # "nil" \/ handle = "handleServiceServerNotice" THEN <<>>
    ELSE <<ServiceMsg("", "reply of the handler")>>

\* handleServicePRIVMSG without the test of cmd.admin against dc.user.Admin.
handleServicePRIVMSGNoAdminTest(admin, text, rot, herr) ==
    LET sw == splitWords(text)
        got == Get(serviceCommands, sw.words, rot)
        none == [called |-> TRUE, handled |-> "nil", params |-> <<>>,
                 herr |-> "nil"]
    IN IF sw.err # "nil"
       THEN [sent |-> <<ServiceMsg("error: ",
                 "failed to parse command: " \o sw.err)>>] @@ none
       ELSE IF got.err # "nil"
       THEN [sent |-> <<ServiceMsg("error: ",
                 got.err \o " (type \"help\" for a list of commands)")>>] @@ none
       ELSE IF got.cmd.handle = "nil"
       THEN IF Len(got.cmd.children) > 0
            THEN [sent |-> <<[prefix |-> "", body |-> "available commands: ",
                             list |-> appendServiceCommandSetHelp(
                                          got.cmd.children, sw.words, admin)]>>]
                 @@ none
            ELSE [sent |-> <<ServiceMsg("", "command not found")>>] @@ none
       ELSE [called |-> TRUE, handled |-> got.cmd.handle, params |-> got.params,
             herr |-> herr,
             sent |-> HandlerReplies(got.cmd.handle, herr) \o
                      (IF herr # "nil" THEN <<ServiceMsg("error: ", herr)>>
                       ELSE <<>>)]

\* handleServicePRIVMSG(ctx, dc, text): the messages sent to dc, and the
\* handler invoked with its params ("nil": none); herr is what the handler
\* returns.
handleServicePRIVMSG(admin, text, rot, herr) ==
    LET sw == splitWords(text)
        got == Get(serviceCommands, sw.words, rot)
        none == [called |-> TRUE, handled |-> "nil", params |-> <<>>,
                 herr |-> "nil"]
    IN IF sw.err # "nil"
       THEN [sent |-> <<ServiceMsg("error: ",
                 "failed to parse command: " \o sw.err)>>] @@ none
       ELSE IF got.err # "nil"
       THEN [sent |-> <<ServiceMsg("error: ",
                 got.err \o " (type \"help\" for a list of commands)")>>] @@ none
       ELSE IF got.cmd.admin /\ ~admin
       THEN [sent |-> <<AdminRequired>>] @@ none
       ELSE IF got.cmd.handle = "nil"
       THEN IF Len(got.cmd.children) > 0
            THEN [sent |-> <<[prefix |-> "", body |-> "available commands: ",
                             list |-> appendServiceCommandSetHelp(
                                          got.cmd.children, sw.words, admin)]>>]
                 @@ none
            ELSE [sent |-> <<ServiceMsg("", "command not found")>>] @@ none
       ELSE [called |-> TRUE, handled |-> got.cmd.handle, params |-> got.params,
             herr |-> herr,
             sent |-> HandlerReplies(got.cmd.handle, herr) \o
                      (IF herr # "nil" THEN <<ServiceMsg("error: ", herr)>>
                       ELSE <<>>)]

\* strings.Join(words, " ")
RECURSIVE JoinWords(_)
JoinWords(words) ==
    IF words = <<>> THEN <<>>
    ELSE IF Len(words) = 1 THEN words[1]
    ELSE words[1] \o <<SPACE>> \o JoinWords(Tail(words))

\* The command lines sent to BouncerServ: command paths by name or
\* abbreviation, well formed or ending in a stray quote or backslash.
ServiceTexts ==
    {JoinWords(p) \o e :
        p \in {q \in InputParams(serviceCommands) :
                 \A i \in 1..Len(q) : q[i] # <<>>},
        e \in {<<>>, <<DQUOTE>>, <<BACKSLASH>>}}

InitSvc ==
    /\ svcIn \in [admin : BOOLEAN, text : ServiceTexts,
                  rot : 0..(Len(serviceCommands) - 1)]
    /\ svcOut = NotCalled
    /\ Idle("svc")

HandleServicePRIVMSG ==
    /\ ~svcOut.called
    /\ \E herr \in HandlerErrors :
         svcOut' = handleServicePRIVMSG(svcIn.admin, svcIn.text, svcIn.rot, herr)
    /\ UNCHANGED svcIn
    /\ Frame("svc")

NextSvc == HandleServicePRIVMSG

SpecSvc == InitSvc /\ [][NextSvc]_vars

----------------------------------------------------------------------------
(* ircutil: Membership, Memberships.Add, Memberships.Remove                *)

Membership(mode, prefix) == [Mode |-> mode, Prefix |-> prefix]

StdMemberships ==
    <<Membership("q", "~"), Membership("a", "&"), Membership("o", "@"),
      Membership("h", "%"), Membership("v", "+")>>

\* What an upstream advertises in PREFIX: the standard memberships, or only
\* operator and voice, in rank order.
AvailableLists == {StdMemberships, <<Membership("o", "@"), Membership("v", "+")>>}

\* The loop of Add over availableMemberships, from its j-th element on, with
\* the local i (elements of l passed so far). ret: Add returned inside the
\* loop, because l already holds newMembership.
RECURSIVE addScan(_, _, _, _, _)
addScan(l, avail, j, i, new) ==
    IF j > Len(avail) \/ i >= Len(l) THEN [ret |-> FALSE, i |-> i]
    ELSE IF l[i + 1] = avail[j]
    THEN IF avail[j] = new THEN [ret |-> TRUE, i |-> i]
         ELSE addScan(l, avail, j + 1, i + 1, new)
    ELSE IF avail[j] = new THEN [ret |-> FALSE, i |-> i]
    ELSE addScan(l, avail, j + 1, i, new)

\* Add that appends newMembership to the list instead of inserting it at its
\* rank.
MembershipsAddAtEnd(l, avail, new) ==
    IF \E k \in 1..Len(l) : l[k] = new THEN l ELSE Append(l, new)

\* m.Add(availableMemberships, newMembership): the new value of *m.
MembershipsAdd(l, avail, new) ==
    LET r == addScan(l, avail, 1, 0, new)
    IN IF r.ret THEN l
       ELSE SubSeq(l, 1, r.i) \o <<new>> \o SubSeq(l, r.i + 1, Len(l))

\* m.Remove(oldMembership): the new value of *m.
MembershipsRemove(l, old) ==
    IF \E k \in 1..Len(l) : l[k] = old
    THEN LET i == CHOOSE k \in 1..Len(l) :
                    l[k] = old /\ \A k2 \in 1..(k - 1) : l[k2] # old
         IN SubSeq(l, 1, i - 1) \o SubSeq(l, i + 1, Len(l))
    ELSE l

\* The members of the channel.
Nicks == {"alice", "bob"}

SeqToSet(q) == {q[k] : k \in 1..Len(q)}

InitMemb ==
    /\ availableMemberships \in AvailableLists
    /\ chMembers = [n \in Nicks |-> <<>>]
    /\ membLast = NotCalled
    /\ Idle("memb")

Add ==
    /\ \E n \in Nicks, m \in SeqToSet(availableMemberships) :
         /\ chMembers' = [chMembers EXCEPT
                            ![n] = MembershipsAdd(@, availableMemberships, m)]
         /\ membLast' = [called |-> TRUE, op |-> "Add", nick |-> n, m |-> m]
    /\ UNCHANGED availableMemberships
    /\ Frame("memb")

Remove ==
    /\ \E n \in Nicks, m \in SeqToSet(availableMemberships) :
         /\ chMembers' = [chMembers EXCEPT ![n] = MembershipsRemove(@, m)]
         /\ membLast' = [called |-> TRUE, op |-> "Remove", nick |-> n, m |-> m]
    /\ UNCHANGED availableMemberships
    /\ Frame("memb")

NextMemb == Add \/ Remove

SpecMemb == InitMemb /\ [][NextMemb]_vars

----------------------------------------------------------------------------
(* bridge.go: applyChannelModes; ircutil: ChannelModeType, StdChannelModes  *)

ModeTypeA == "A"
ModeTypeB == "B"
ModeTypeC == "C"
ModeTypeD == "D"

\* upstreamConn.availableChannelModes, as initialised from StdChannelModes.
StdChannelModes ==
    [b |-> ModeTypeA, e |-> ModeTypeA, I |-> ModeTypeA, k |-> ModeTypeB,
     l |-> ModeTypeC, i |-> ModeTypeD, m |-> ModeTypeD, n |-> ModeTypeD,
     s |-> ModeTypeD, t |-> ModeTypeD]

\* ch.modes: a nil map, or a map from mode letters to arguments.
NilModes == [nil |-> TRUE, m |-> <<>>]
Modes(m) == [nil |-> FALSE, m |-> m]

\* ch.modes[mode] = argument, skipped for a nil map.
ModesSet(modes, mode, argument) ==
    IF modes.nil THEN modes
    ELSE Modes([x \in DOMAIN modes.m \cup {mode} |->
                  IF x = mode THEN argument ELSE modes.m[x]])

\* delete(ch.modes, mode)
ModesDelete(modes, mode) ==
    IF modes.nil THEN modes
    ELSE Modes([x \in DOMAIN modes.m \ {mode} |-> modes.m[x]])

\* The locals of applyChannelModes and the channel it works on.
applyInit(modes, members) ==
    [modes |-> modes, members |-> members, nextArgument |-> 0,
     plusMinus |-> "", needMarshaling |-> {}, err |-> "nil"]

\* The branch of the loop body for a mode found in availableMemberships.
applyMembership(st, avail, arguments, membership) ==
    IF st.nextArgument >= Len(arguments)
    THEN [st EXCEPT !.err = "missing mode argument"]
    ELSE LET member == arguments[st.nextArgument + 1]
             members ==
               IF member \in DOMAIN st.members
               THEN IF st.plusMinus = "+"
                    THEN [st.members EXCEPT
                            ![member] = MembershipsAdd(@, avail, membership)]
                    ELSE [st.members EXCEPT
                            ![member] = MembershipsRemove(@, membership)]
               ELSE st.members
         IN [st EXCEPT !.members = members,
                       !.needMarshaling = @ \cup {st.nextArgument},
                       !.nextArgument = @ + 1]

\* The branch of the loop body for a channel mode of type mt.
applyChannelMode(st, arguments, mode, mt) ==
    IF mt = ModeTypeB \/ (mt = ModeTypeC /\ st.plusMinus = "+")
    THEN IF st.plusMinus = "+"
         THEN LET argument == IF st.nextArgument < Len(arguments)
                              THEN arguments[st.nextArgument + 1] ELSE ""
              IN [st EXCEPT !.modes = ModesSet(@, mode, argument),
                            !.nextArgument = @ + 1]
         ELSE [st EXCEPT !.modes = ModesDelete(@, mode),
                         !.nextArgument = @ + 1]
    ELSE IF mt = ModeTypeC \/ mt = ModeTypeD
    THEN IF st.plusMinus = "+"
         THEN [st EXCEPT !.modes = ModesSet(@, mode, "")]
         ELSE [st EXCEPT !.modes = ModesDelete(@, mode)]
    ELSE st

\* One iteration of the loop over modeStr.
applyStep(st, avail, arguments, mode) ==
    IF mode = "+" \/ mode = "-" THEN [st EXCEPT !.plusMinus = mode]
    ELSE IF st.plusMinus # "+" /\ st.plusMinus # "-"
    THEN [st EXCEPT !.err = "missing plus/minus"]
    ELSE IF \E k \in 1..Len(avail) : avail[k].Mode = mode
    THEN applyMembership(st, avail, arguments,
             avail[CHOOSE k \in 1..Len(avail) :
                     avail[k].Mode = mode
                     /\ \A k2 \in 1..(k - 1) : avail[k2].Mode # mode])
    ELSE IF mode \notin DOMAIN StdChannelModes THEN st
    ELSE applyChannelMode(st, arguments, mode, StdChannelModes[mode])

\* The loop from the i-th byte of modeStr on; an error returns at once.
RECURSIVE applyLoop(_, _, _, _, _)
applyLoop(st, avail, modeStr, arguments, i) ==
    IF i > Len(modeStr) \/ st.err # "nil" THEN st
    ELSE applyLoop(applyStep(st, avail, arguments, modeStr[i]), avail,
                   modeStr, arguments, i + 1)

\* applyChannelModes(ch, modeStr, arguments): the channel as it leaves it
\* (modes, members), needMarshaling and err, and the final nextArgument.
applyChannelModes(modes, members, avail, modeStr, arguments) ==
    LET st == applyLoop(applyInit(modes, members), avail, modeStr, arguments, 1)
    IN [called |-> TRUE, modes |-> st.modes, members |-> st.members,
        needMarshaling |-> IF st.err = "nil" THEN st.needMarshaling ELSE {},
        err |-> st.err, nextArgument |-> st.nextArgument]

\* cm.Format(), the map ranged over in the given order of its modes:
\* modeString as the sequence of its bytes, and parameters.
Format(cm, order) ==
    LET withValues == SelectSeq(order, LAMBDA mode : cm[mode] # "")
        withoutValues == SelectSeq(order, LAMBDA mode : cm[mode] = "")
    IN [modeString |-> <<"+">> \o withValues \o withoutValues,
        parameters |-> [i \in 1..Len(withValues) |-> cm[withValues[i]]]]

\* Longest modestring and longest argument list of a MODE message.
MaxModeLen == 3
MaxModeArgs == 2

\* The bytes of a modestring: signs, a membership mode, and one channel mode
\* of each type.
ModeChars == {"+", "-", "o", "b", "k", "l", "i"}

\* Mode arguments: the nick of a member, and a word that is no nick.
ModeArgs == {"alice", "5"}

SeqsUpTo(S, n) == UNION {[1..k -> S] : k \in 0..n}

InitModes ==
    /\ availableMemberships = StdMemberships
    /\ chMembers \in {[n \in {"alice"} |-> l] :
                        l \in {<<>>, <<Membership("o", "@")>>}}
    /\ chModes \in {NilModes, Modes(<<>>), Modes([k |-> "5", i |-> ""])}
    /\ modeIn \in [modeStr : SeqsUpTo(ModeChars, MaxModeLen),
                   arguments : SeqsUpTo(ModeArgs, MaxModeArgs)]
    /\ modeOut = NotCalled
    /\ Idle("modes")

ApplyChannelModes ==
    /\ ~modeOut.called
    /\ LET r == applyChannelModes(chModes, chMembers, availableMemberships,
                                  modeIn.modeStr, modeIn.arguments)
       IN /\ chModes' = r.modes
          /\ chMembers' = r.members
          /\ modeOut' = [called |-> TRUE, needMarshaling |-> r.needMarshaling,
                         err |-> r.err, nextArgument |-> r.nextArgument,
                         modes |-> chModes, members |-> chMembers]
    /\ UNCHANGED <<availableMemberships, modeIn>>
    /\ Frame("modes")

NextModes == ApplyChannelModes

SpecModes == InitModes /\ [][NextModes]_vars

----------------------------------------------------------------------------
(* db_sqlite.go: the SQLite store                                          *)
(*                                                                         *)
(* A table is the set of its rows. Every method holds db.lock for its      *)
(* whole run, so each call is one step. A statement may fail (its context  *)
(* is cancelled or times out): failAt numbers the statement that fails, 0  *)
(* for none. SQLite does not enforce the FOREIGN KEY clauses (the code     *)
(* never turns foreign_keys on); it does enforce UNIQUE.                   *)

\* The largest row id a table of the model takes.
MaxId == 2

Usernames == {"u1", "u2"}
Passwords == {"p1", "p2"}
NetworkNames == {"n1", "n2"}
ChannelNames == {"#a", "#b"}
Targets == {"#a", "#b"}
Clients == {"", "c1"}       \* "" is stored as NULL: no specific client
MsgIds == {"m1", "m2"}

Max(S) == CHOOSE x \in S : \A y \in S : y <= x

\* The rowid SQLite gives a row inserted into a table with an INTEGER
\* PRIMARY KEY: one more than the largest in the table.
LastInsertId(table) == IF table = {} THEN 1 ELSE Max({r.id : r \in table}) + 1

DB(u, n, c, r) == [User |-> u, Network |-> n, Channel |-> c, Receipt |-> r]

\* StoreUser(ctx, user): the tables, the error and user.ID on return.
StoreUser(db, user, failAt) ==
    IF failAt # 0
    THEN [db |-> db, err |-> "context", id |-> user.ID]
    ELSE IF user.ID # 0
    THEN [db |-> [db EXCEPT !.User =
                    {IF r.username = user.Username
                     THEN [r EXCEPT !.password = user.Password] ELSE r :
                       r \in db.User}],
          err |-> "nil", id |-> user.ID]
    ELSE IF \E r \in db.User : r.username = user.Username
    THEN [db |-> db, err |-> "UNIQUE constraint failed", id |-> user.ID]
    ELSE LET id == LastInsertId(db.User)
         IN [db |-> [db EXCEPT !.User = @ \cup
                        {[id |-> id, username |-> user.Username,
                          password |-> user.Password]}],
             err |-> "nil", id |-> id]

\* The tables after the first k statements of DeleteUser's transaction.
deleteUserStmts(db, id, k) ==
    LET nets == {n.id : n \in {m \in db.Network : m.user = id}}
        s1 == [db EXCEPT !.Receipt = {r \in @ : r.network \notin nets}]
        s2 == [s1 EXCEPT !.Channel = {c \in @ : c.network \notin nets}]
        s3 == [s2 EXCEPT !.Network = {n \in @ : n.user # id}]
        s4 == [s3 EXCEPT !.User = {u \in @ : u.id # id}]
    IN <<db, s1, s2, s3, s4>>[k + 1]

\* DeleteUser that deletes the user's row and nothing else.
DeleteUserOnlyUser(db, id, failAt) ==
    IF failAt = 0
    THEN [db |-> [db EXCEPT !.User = {u \in @ : u.id # id}], err |-> "nil"]
    ELSE [db |-> db, err |-> "context"]

\* DeleteUser(ctx, id): four DELETEs in a transaction; failAt in 1..4 fails
\* that statement and 5 the commit, and the deferred Rollback undoes all.
DeleteUser(db, id, failAt) ==
    IF failAt = 0 THEN [db |-> deleteUserStmts(db, id, 4), err |-> "nil"]
    ELSE [db |-> db, err |-> "context"]

\* UNIQUE(user, name) on Network, for the row id taking (user, name).
NetworkUnique(db, id, user, name) ==
    \A n \in db.Network : n.id = id \/ n.user # user \/ n.name # name

\* StoreNetwork(ctx, userID, network)
StoreNetwork(db, userID, network, failAt) ==
    IF failAt # 0
    THEN [db |-> db, err |-> "context", id |-> network.ID]
    ELSE IF network.ID # 0
    THEN IF \E n \in db.Network :
               n.id = network.ID /\ ~NetworkUnique(db, n.id, n.user, network.Name)
         THEN [db |-> db, err |-> "UNIQUE constraint failed", id |-> network.ID]
         ELSE [db |-> [db EXCEPT !.Network =
                         {IF n.id = network.ID
                          THEN [n EXCEPT !.name = network.Name] ELSE n :
                            n \in db.Network}],
               err |-> "nil", id |-> network.ID]
    ELSE IF ~NetworkUnique(db, 0, userID, network.Name)
    THEN [db |-> db, err |-> "UNIQUE constraint failed", id |-> network.ID]
    ELSE LET id == LastInsertId(db.Network)
         IN [db |-> [db EXCEPT !.Network = @ \cup
                        {[id |-> id, user |-> userID, name |-> network.Name]}],
             err |-> "nil", id |-> id]

\* The tables after the first k statements of DeleteNetwork's transaction.
deleteNetworkStmts(db, id, k) ==
    LET s1 == [db EXCEPT !.Receipt = {r \in @ : r.network # id}]
        s2 == [s1 EXCEPT !.Channel = {c \in @ : c.network # id}]
        s3 == [s2 EXCEPT !.Network = {n \in @ : n.id # id}]
    IN <<db, s1, s2, s3>>[k + 1]

\* DeleteNetwork(ctx, id): three DELETEs in a transaction.
DeleteNetwork(db, id, failAt) ==
    IF failAt = 0 THEN [db |-> deleteNetworkStmts(db, id, 3), err |-> "nil"]
    ELSE [db |-> db, err |-> "context"]

\* UNIQUE(network, name) on Channel, for the row id taking (network, name).
ChannelUnique(db, id, network, name) ==
    \A c \in db.Channel : c.id = id \/ c.network # network \/ c.name # name

\* StoreChannel(ctx, networkID, ch)
StoreChannel(db, networkID, ch, failAt) ==
    IF failAt # 0
    THEN [db |-> db, err |-> "context", id |-> ch.ID]
    ELSE IF ch.ID # 0
    THEN IF (\E c \in db.Channel : c.id = ch.ID)
            /\ ~ChannelUnique(db, ch.ID, networkID, ch.Name)
         THEN [db |-> db, err |-> "UNIQUE constraint failed", id |-> ch.ID]
         ELSE [db |-> [db EXCEPT !.Channel =
                         {IF c.id = ch.ID
                          THEN [c EXCEPT !.network = networkID, !.name = ch.Name]
                          ELSE c : c \in db.Channel}],
               err |-> "nil", id |-> ch.ID]
    ELSE IF ~ChannelUnique(db, 0, networkID, ch.Name)
    THEN [db |-> db, err |-> "UNIQUE constraint failed", id |-> ch.ID]
    ELSE LET id == LastInsertId(db.Channel)
         IN [db |-> [db EXCEPT !.Channel = @ \cup
                        {[id |-> id, network |-> networkID, name |-> ch.Name]}],
             err |-> "nil", id |-> id]

\* DeleteChannel(ctx, id)
DeleteChannel(db, id, failAt) ==
    IF failAt # 0 THEN [db |-> db, err |-> "context"]
    ELSE [db |-> [db EXCEPT !.Channel = {c \in @ : c.id # id}], err |-> "nil"]

\* The INSERTs of StoreClientDeliveryReceipts from receipts[i] on, into the
\* table rows; failAt counts the DELETE as statement 1. ok: none failed.
RECURSIVE insertReceipts(_, _, _, _, _, _)
insertReceipts(rows, networkID, client, receipts, i, failAt) ==
    IF i > Len(receipts) THEN [rows |-> rows, ok |-> TRUE]
    ELSE IF failAt = i + 1 THEN [rows |-> rows, ok |-> FALSE]
    ELSE IF client # "" /\ \E r \in rows :
              r.network = networkID /\ r.target = receipts[i].Target
              /\ r.client = client
    THEN [rows |-> rows, ok |-> FALSE]
    ELSE insertReceipts(
             rows \cup {[id |-> LastInsertId(rows), network |-> networkID,
                         target |-> receipts[i].Target, client |-> client,
                         msgid |-> receipts[i].InternalMsgID]},
             networkID, client, receipts, i + 1, failAt)

\* StoreClientDeliveryReceipts whose DELETE compares the client with "=":
\* a NULL client equals nothing, so the rows of no client all stay.
StoreClientDeliveryReceiptsEq(db, networkID, client, receipts, failAt) ==
    LET kept == {r \in db.Receipt :
                   ~(r.network = networkID /\ r.client = client /\ client # "")}
        ins == insertReceipts(kept, networkID, client, receipts, 1, failAt)
    IN IF failAt = 1 \/ ~ins.ok \/ failAt = Len(receipts) + 2
       THEN [db |-> db, err |-> "failed"]
       ELSE [db |-> [db EXCEPT !.Receipt = ins.rows], err |-> "nil"]

\* StoreClientDeliveryReceipts(ctx, networkID, client, receipts): a DELETE
\* and one INSERT per receipt in a transaction; failAt = Len(receipts) + 2
\* fails the commit.
StoreClientDeliveryReceipts(db, networkID, client, receipts, failAt) ==
    LET kept == {r \in db.Receipt : ~(r.network = networkID /\ r.client = client)}
        ins == insertReceipts(kept, networkID, client, receipts, 1, failAt)
    IN IF failAt = 1 \/ ~ins.ok \/ failAt = Len(receipts) + 2
       THEN [db |-> db, err |-> "failed"]
       ELSE [db |-> [db EXCEPT !.Receipt = ins.rows], err |-> "nil"]

\* The tables as one value.
DBNow == DB(dbUser, dbNetwork, dbChannel, dbReceipt)

\* The model keeps the row ids of every table within MaxId.
WithinMaxId(db) ==
    \A t \in {db.User, db.Network, db.Channel, db.Receipt} :
        \A r \in t : r.id <= MaxId

\* A call returns res. dbLast samples one call of a run, with the tables it
\* found: the run is followed up to and including the sampled call.
Call(res, call) ==
    /\ ~dbLast.called
    /\ WithinMaxId(res.db)
    /\ dbUser' = res.db.User
    /\ dbNetwork' = res.db.Network
    /\ dbChannel' = res.db.Channel
    /\ dbReceipt' = res.db.Receipt
    /\ \/ dbLast' = dbLast
       \/ dbLast' = [called |-> TRUE, err |-> res.err, pre |-> DBNow] @@ call
    /\ Frame("db")

UserIds(db) == {u.id : u \in db.User}
NetworkIds(db) == {n.id : n \in db.Network}

\* The lists of receipts a call stores: up to one receipt per target, and
\* a target may come twice.
ReceiptLists(targets, msgids) ==
    UNION {[1..n -> [Target : targets, InternalMsgID : msgids]] :
             n \in 0..Cardinality(targets)}

\* The Store actions take the values their records' other columns range over.
DBStoreUser(passwords) ==
    \E user \in [ID : 0..MaxId, Username : Usernames, Password : passwords],
       failAt \in 0..1 :
        LET res == StoreUser(DBNow, user, failAt)
        IN Call(res, [op |-> "StoreUser", arg |-> user, id |-> res.id])

DBDeleteUser ==
    \E id \in 1..MaxId, failAt \in 0..5 :
        Call(DeleteUser(DBNow, id, failAt), [op |-> "DeleteUser", id |-> id])

\* Callers store a network for a user they hold, a channel or receipts for
\* a network they hold: the parent named is a row of the database.
DBStoreNetwork(names) ==
    \E userID \in UserIds(DBNow),
       network \in [ID : 0..MaxId, Name : names], failAt \in 0..1 :
        LET res == StoreNetwork(DBNow, userID, network, failAt)
        IN Call(res, [op |-> "StoreNetwork", parent |-> userID,
                      arg |-> network, id |-> res.id])

DBDeleteNetwork ==
    \E id \in 1..MaxId, failAt \in 0..4 :
        Call(DeleteNetwork(DBNow, id, failAt), [op |-> "DeleteNetwork", id |-> id])

DBStoreChannel(names) ==
    \E networkID \in NetworkIds(DBNow),
       ch \in [ID : 0..MaxId, Name : names], failAt \in 0..1 :
        LET res == StoreChannel(DBNow, networkID, ch, failAt)
        IN Call(res, [op |-> "StoreChannel", parent |-> networkID,
                      arg |-> ch, id |-> res.id])

DBDeleteChannel ==
    \E id \in 1..MaxId, failAt \in 0..1 :
        Call(DeleteChannel(DBNow, id, failAt), [op |-> "DeleteChannel", id |-> id])

\* The receipts stored are lists over the given targets and message ids.
DBStoreClientDeliveryReceipts(targets, msgids) ==
    \E networkID \in NetworkIds(DBNow), client \in Clients,
       receipts \in ReceiptLists(targets, msgids) :
        \E failAt \in 0..(Len(receipts) + 2) :
            Call(StoreClientDeliveryReceipts(DBNow, networkID, client,
                                             receipts, failAt),
                 [op |-> "StoreClientDeliveryReceipts", parent |-> networkID,
                  client |-> client, arg |-> receipts])

\* The whole store, from an empty database: the rows differ in their ids
\* and parents, and users in their names.
InitDB == /\ IdleDB /\ Idle("db")

NextDB ==
    \/ DBStoreUser({"p1"})
    \/ DBDeleteUser
    \/ DBStoreNetwork({"n1"})
    \/ DBDeleteNetwork
    \/ DBStoreChannel({"#a"})
    \/ DBDeleteChannel
    \/ DBStoreClientDeliveryReceipts({"#a"}, {"m1"})

SpecDB == InitDB /\ [][NextDB]_vars

\* Users, networks and channels with the columns the Store methods write,
\* from an empty database.
InitStore == /\ IdleDB /\ Idle("db")

NextStore ==
    \/ DBStoreUser(Passwords)
    \/ DBDeleteUser
    \/ DBStoreNetwork(NetworkNames)
    \/ DBDeleteNetwork
    \/ DBStoreChannel(ChannelNames)
    \/ DBDeleteChannel

SpecStore == InitStore /\ [][NextStore]_vars

\* The delivery receipts of two networks, each of its own user.
InitRcpt ==
    /\ dbUser = {[id |-> i, username |-> <<"u1", "u2">>[i], password |-> "p1"] :
                   i \in 1..2}
    /\ dbNetwork = {[id |-> i, user |-> i, name |-> "n1"] : i \in 1..2}
    /\ dbChannel = {}
    /\ dbReceipt = {}
    /\ dbLast = NotCalled
    /\ Idle("db")

NextRcpt == DBStoreClientDeliveryReceipts(Targets, MsgIds)

SpecRcpt == InitRcpt /\ [][NextRcpt]_vars


----------------------------------------------------------------------------
(* service.go: handleServiceServerNotice                                   *)
(*                                                                         *)
(* The handler visits every user and, for each, selects between the        *)
(* cancellation of its context and a send to the user's inbox u.events.    *)
(* A select blocks while no case is ready and takes any one of the ready   *)
(* cases. The inbox is a buffered channel; the user's actor takes events   *)
(* off it one at a time, and other producers put events into it.           *)

\* The capacity of a user's inbox in the model.
EventsCap == 1

Users == {"u1", "u2", "u3"}

HasRoom(u) == Len(events[u]) < EventsCap

Send(u, event) == events' = [events EXCEPT ![u] = Append(@, event)]

eventBroadcast == [kind |-> "broadcast"]
eventOther == [kind |-> "other"]

\* Every order of the users without repetition: a Go map is ranged over in
\* an unspecified order.
Orders(S) ==
    {o \in [1..Cardinality(S) -> S] : \A i, j \in DOMAIN o : i # j => o[i] # o[j]}

InitNotice ==
    /\ events = [u \in Users |-> <<>>]
    /\ bcOrder \in Orders(Users)
    /\ bcLog = <<>>
    /\ bcCtxDone = FALSE
    /\ bcErr = "nil"
    /\ bcOut = NotCalled
    /\ Idle("bc")

\* The user the closure is called for next.
Visiting == bcOrder[Len(bcLog) + 1]

InLoop == ~bcOut.called /\ Len(bcLog) < Len(bcOrder)

\* case u.events <- eventBroadcast{broadcastMsg}
NoticeSend ==
    /\ InLoop
    /\ HasRoom(Visiting)
    /\ Send(Visiting, eventBroadcast)
    /\ bcLog' = Append(bcLog, [user |-> Visiting, did |-> "sent",
                               ctxDone |-> bcCtxDone,
                               full |-> {u \in Users : ~HasRoom(u)}])
    /\ UNCHANGED <<bcOrder, bcCtxDone, bcErr, bcOut>>
    /\ Frame("bc")

\* case <-ctx.Done(): err = ctx.Err()
NoticeCtxDone ==
    /\ InLoop
    /\ bcCtxDone
    /\ bcErr' = "context canceled"
    /\ bcLog' = Append(bcLog, [user |-> Visiting, did |-> "abandoned",
                               ctxDone |-> bcCtxDone,
                               full |-> {u \in Users : ~HasRoom(u)}])
    /\ UNCHANGED <<events, bcOrder, bcCtxDone, bcOut>>
    /\ Frame("bc")

\* return err
NoticeReturn ==
    /\ ~bcOut.called
    /\ Len(bcLog) = Len(bcOrder)
    /\ bcOut' = [called |-> TRUE, err |-> bcErr]
    /\ UNCHANGED <<events, bcOrder, bcLog, bcCtxDone, bcErr>>
    /\ Frame("bc")

\* The request's context is cancelled: its client is gone or the server
\* shuts down.
NoticeCancel ==
    /\ ~bcOut.called
    /\ ~bcCtxDone
    /\ bcCtxDone' = TRUE
    /\ UNCHANGED <<events, bcOrder, bcLog, bcErr, bcOut>>
    /\ Frame("bc")

\* Another producer puts an event into a user's inbox.
NoticeOtherEvent ==
    \E u \in Users :
        /\ HasRoom(u)
        /\ Send(u, eventOther)
        /\ UNCHANGED bcVars
        /\ Frame("bc")

\* A user's actor takes the oldest event off its inbox.
NoticeUserRun ==
    \E u \in Users :
        /\ events[u] # <<>>
        /\ events' = [events EXCEPT ![u] = Tail(@)]
        /\ UNCHANGED bcVars
        /\ Frame("bc")

NextNotice ==
    \/ NoticeSend
    \/ NoticeCtxDone
    \/ NoticeReturn
    \/ NoticeCancel
    \/ NoticeOtherEvent
    \/ NoticeUserRun

SpecNotice == InitNotice /\ [][NextNotice]_vars

----------------------------------------------------------------------------
(* service.go: handleUserUpdate aimed at another user                      *)
(*                                                                         *)
(* A command is handled by the actor of the user who sent it, one event at *)
(* a time. The handler makes a channel done, selects between its context   *)
(* and the send of an eventUserUpdate to the target's inbox, then receives *)
(* from done. The target's actor handles the event by updating the user    *)
(* and sending the outcome on done.                                        *)

Admins == {"u1", "u2"}

Other(u) == CHOOSE v \in Admins : v # u

eventCommand(target) == [kind |-> "user update", target |-> target]
eventUserUpdate(from) == [kind |-> "eventUserUpdate", done |-> from]

UpdateErrors == {"nil", "update failed"}

InitUpdate ==
    /\ events = [u \in Admins |-> <<>>]
    /\ updPc = [u \in Admins |-> "run"]
    /\ updTarget = [u \in Admins |-> ""]
    /\ updCtxDone = [u \in Admins |-> FALSE]
    /\ updDone = [u \in Admins |-> <<>>]
    /\ updOut = [u \in Admins |-> NotCalled]
    /\ Idle("upd")

\* A client of admin u sends "user update <other>": the message waits in
\* u's inbox. Each admin sends one.
UpdateCommand(u) ==
    /\ updPc[u] = "run"
    /\ ~updOut[u].called
    /\ \A i \in DOMAIN events[u] : events[u][i].kind # "user update"
    /\ HasRoom(u)
    /\ Send(u, eventCommand(Other(u)))
    /\ UNCHANGED updVars
    /\ Frame("upd")

\* u's actor takes the command off its inbox and enters handleUserUpdate
\* up to the select: done := make(chan error, 1).
UpdateEnter(u) ==
    /\ updPc[u] = "run"
    /\ events[u] # <<>>
    /\ Head(events[u]).kind = "user update"
    /\ events' = [events EXCEPT ![u] = Tail(@)]
    /\ updPc' = [updPc EXCEPT ![u] = "select"]
    /\ updTarget' = [updTarget EXCEPT ![u] = Head(events[u]).target]
    /\ updCtxDone' = [updCtxDone EXCEPT ![u] = FALSE]
    /\ updDone' = [updDone EXCEPT ![u] = <<>>]
    /\ UNCHANGED updOut
    /\ Frame("upd")

\* case <-ctx.Done(): return ctx.Err()
UpdateCtxDone(u) ==
    /\ updPc[u] = "select"
    /\ updCtxDone[u]
    /\ updPc' = [updPc EXCEPT ![u] = "run"]
    /\ updOut' = [updOut EXCEPT ![u] = [called |-> TRUE, err |-> "context canceled"]]
    /\ UNCHANGED <<events, updTarget, updCtxDone, updDone>>
    /\ Frame("upd")

\* case u.events <- event
UpdateSend(u) ==
    /\ updPc[u] = "select"
    /\ HasRoom(updTarget[u])
    /\ Send(updTarget[u], eventUserUpdate(u))
    /\ updPc' = [updPc EXCEPT ![u] = "done"]
    /\ UNCHANGED <<updTarget, updCtxDone, updDone, updOut>>
    /\ Frame("upd")

\* err := <-done, and the return
UpdateReceiveDone(u) ==
    /\ updPc[u] = "done"
    /\ updDone[u] # <<>>
    /\ updDone' = [updDone EXCEPT ![u] = Tail(@)]
    /\ updPc' = [updPc EXCEPT ![u] = "run"]
    /\ updOut' = [updOut EXCEPT ![u] = [called |-> TRUE, err |-> Head(updDone[u])]]
    /\ UNCHANGED <<events, updTarget, updCtxDone>>
    /\ Frame("upd")

\* The steps with which u's handleUserUpdate returns.
UpdateReturn(u) == UpdateCtxDone(u) \/ UpdateReceiveDone(u)

\* The context of the request u handles is cancelled.
UpdateCancel(u) ==
    /\ updPc[u] # "run"
    /\ ~updCtxDone[u]
    /\ updCtxDone' = [updCtxDone EXCEPT ![u] = TRUE]
    /\ UNCHANGED <<events, updPc, updTarget, updDone, updOut>>
    /\ Frame("upd")

\* u's actor takes an eventUserUpdate off its inbox, updates the user and
\* sends the outcome on the event's done.
UpdateHandleEvent(u) ==
    /\ updPc[u] = "run"
    /\ events[u] # <<>>
    /\ Head(events[u]).kind = "eventUserUpdate"
    /\ events' = [events EXCEPT ![u] = Tail(@)]
    /\ \E err \in UpdateErrors :
         updDone' = [updDone EXCEPT ![Head(events[u]).done] = Append(@, err)]
    /\ UNCHANGED <<updPc, updTarget, updCtxDone, updOut>>
    /\ Frame("upd")

\* Another producer puts an event into u's inbox, and u's actor handles it.
UpdateOtherEvent(u) ==
    /\ HasRoom(u)
    /\ Send(u, eventOther)
    /\ UNCHANGED updVars
    /\ Frame("upd")

UpdateHandleOther(u) ==
    /\ updPc[u] = "run"
    /\ events[u] # <<>>
    /\ Head(events[u]).kind = "other"
    /\ events' = [events EXCEPT ![u] = Tail(@)]
    /\ UNCHANGED updVars
    /\ Frame("upd")

NextUpdate ==
    \E u \in Admins :
        \/ UpdateCommand(u)
        \/ UpdateEnter(u)
        \/ UpdateCtxDone(u)
        \/ UpdateSend(u)
        \/ UpdateReceiveDone(u)
        \/ UpdateCancel(u)
        \/ UpdateHandleEvent(u)
        \/ UpdateOtherEvent(u)
        \/ UpdateHandleOther(u)

SpecUpdate == InitUpdate /\ [][NextUpdate]_vars

----------------------------------------------------------------------------
(* db_sqlite.go: SqliteDB.upgrade                                          *)
(*                                                                         *)
(* The file's schema is the list of the scripts executed on it: "schema"   *)
(* for sqliteSchema, i for sqliteMigrations[i]. DDL and PRAGMA             *)
(* user_version are part of the transaction, so the deferred Rollback      *)
(* undoes them. failAt numbers the step that fails, 0 for none.            *)

\* sqliteMigrations, by index (Go counts from 0): entry 0 is reserved.
sqliteMigrations == [i \in 0..13 |-> IF i = 0 THEN "" ELSE "migration"]

\* len(sqliteMigrations)
LenMigrations == Cardinality(DOMAIN sqliteMigrations)

\* How far beyond the program's migrations the version of a file may be.
MaxNewer == 2

\* The scripts upgrade executes on a file at the given version.
Pending(version) ==
    IF version = 0 THEN <<"schema">>
    ELSE [k \in 1..(LenMigrations - version) |-> version + k - 1]

\* upgrade whose loop starts after migration #version.
upgradeSkipsOne(version, schema, failAt) ==
    IF version = LenMigrations THEN [version |-> version, schema |-> schema, err |-> "nil"]
    ELSE IF version > LenMigrations
    THEN [version |-> version, schema |-> schema, err |-> "older than schema"]
    ELSE IF failAt # 0
    THEN [version |-> version, schema |-> schema, err |-> "failed"]
    ELSE [version |-> LenMigrations,
          schema |-> schema \o (IF version = 0 THEN Pending(0)
                                ELSE Pending(version + 1)),
          err |-> "nil"]

\* upgrade(): the version and schema of the file on return, and the error.
\* Steps: 1 Begin, then one per script, then the PRAGMA, then Commit.
upgrade(version, schema, failAt) ==
    IF version = LenMigrations THEN [version |-> version, schema |-> schema, err |-> "nil"]
    ELSE IF version > LenMigrations
    THEN [version |-> version, schema |-> schema, err |-> "older than schema"]
    ELSE IF failAt # 0
    THEN [version |-> version, schema |-> schema,
          err |-> IF failAt = 1 THEN "begin failed"
                  ELSE IF failAt <= 1 + Len(Pending(version))
                  THEN IF version = 0 THEN "failed to initialize schema"
                       ELSE "failed to execute migration"
                  ELSE IF failAt = 2 + Len(Pending(version))
                  THEN "failed to bump schema version"
                  ELSE "commit failed"]
    ELSE [version |-> LenMigrations, schema |-> schema \o Pending(version),
          err |-> "nil"]

\* A file as earlier runs left it: new, or at some version, by this
\* program, an older or a newer one. A file past version 0 holds the
\* initial schema and the migrations up to its version.
InitUpgrade ==
    /\ upVersion \in 0..(LenMigrations + MaxNewer)
    /\ upSchema = IF upVersion = 0 THEN <<>>
                  ELSE <<"schema">> \o [k \in 1..(upVersion - 1) |-> k]
    /\ upLast = NotCalled
    /\ Idle("up")

\* OpenSqliteDB calls upgrade.
Upgrade ==
    \E failAt \in 0..(Len(Pending(upVersion)) + 3) :
        /\ LET res == upgrade(upVersion, upSchema, failAt)
           IN /\ upVersion' = res.version
              /\ upSchema' = res.schema
              /\ upLast' = [called |-> TRUE, err |-> res.err, failAt |-> failAt,
                            version |-> upVersion, schema |-> upSchema]
        /\ Frame("up")

NextUpgrade == Upgrade

SpecUpgrade == InitUpgrade /\ [][NextUpgrade]_vars

----------------------------------------------------------------------------
(* service.go: handleServiceHelp                                           *)

\* The reply about one command: text is the words as given, then cmd.usage
\* and cmd.desc. A command's usage and description are told apart by the
\* command they belong to, named here by its handler.
UsageMsg(words, cmd) ==
    [prefix |-> "", body |-> "usage and desc", list |-> <<words>>, of |-> cmd.handle]

\* The reply "available commands: " with the commands it lists.
AvailableMsg(l) == [prefix |-> "", body |-> "available commands: ", list |-> l]

\* handleServiceHelp(ctx, dc, params): the messages sent to dc and the
\* error returned.
handleServiceHelp(admin, params, rot) ==
    IF Len(params) > 0
    THEN LET got == Get(serviceCommands, params, rot)
             words == SubSeq(params, 1, Len(params) - Len(got.params))
         IN IF got.err # "nil"
            THEN [called |-> TRUE, err |-> got.err, sent |-> <<>>]
            ELSE IF Len(got.cmd.children) > 0
            THEN [called |-> TRUE, err |-> "nil",
                  sent |-> <<AvailableMsg(appendServiceCommandSetHelp(
                                 got.cmd.children, words, admin))>>]
            ELSE [called |-> TRUE, err |-> "nil", sent |-> <<UsageMsg(words, got.cmd)>>]
    ELSE [called |-> TRUE, err |-> "nil",
          sent |-> <<AvailableMsg(appendServiceCommandSetHelp(
                         serviceCommands, <<>>, admin))>>]

InitHelp ==
    /\ helpIn \in [admin : BOOLEAN, params : InputParams(serviceCommands),
                   rot : 0..(Len(serviceCommands) - 1)]
    /\ helpOut = NotCalled
    /\ Idle("help")

HandleServiceHelp ==
    /\ ~helpOut.called
    /\ helpOut' = handleServiceHelp(helpIn.admin, helpIn.params, helpIn.rot)
    /\ UNCHANGED helpIn
    /\ Frame("help")

NextHelp == HandleServiceHelp

SpecHelp == InitHelp /\ [][NextHelp]_vars

----------------------------------------------------------------------------
(* service.go: popArg, the flag sets and handleUserUpdate's checks         *)
(*                                                                         *)
(* Words are sequences of characters. flagParse follows FlagSet.Parse of   *)
(* the Go standard library for flags that all take a value.                *)

DASH == "-"
EQUALS == "="

\* popArg(params)
popArg(params) ==
    IF Len(params) > 0 /\ ~(Len(params[1]) > 0 /\ params[1][1] = DASH)
    THEN [arg |-> params[1], params |-> Tail(params)]
    ELSE [arg |-> <<>>, params |-> params]

\* The index of the first "=" of name after its first character, or 0.
EqualsAt(name) ==
    LET at == {i \in 2..Len(name) : name[i] = EQUALS}
    IN IF at = {} THEN 0 ELSE CHOOSE i \in at : \A j \in at : i <= j

\* strconv.ParseBool
ParseBool(s) ==
    IF s \in {<<"1">>, <<"t">>, <<"T">>, <<"t", "r", "u", "e">>,
              <<"T", "R", "U", "E">>, <<"T", "r", "u", "e">>}
    THEN [ok |-> TRUE, v |-> TRUE]
    ELSE IF s \in {<<"0">>, <<"f">>, <<"F">>, <<"f", "a", "l", "s", "e">>,
                   <<"F", "A", "L", "S", "E">>, <<"F", "a", "l", "s", "e">>}
    THEN [ok |-> TRUE, v |-> FALSE]
    ELSE [ok |-> FALSE, v |-> FALSE]

\* A flag that was not given is nil.
Nil == [set |-> FALSE]
Ptr(v) == [set |-> TRUE, v |-> v]

\* fs.Parse(args) for a flag set of string flags strs and bool flags bools:
\* the flags given so far are in got; returns them with fs.Args() and the
\* error.
RECURSIVE flagParse(_, _, _, _)
flagParse(args, strs, bools, got) ==
    IF args = <<>> THEN [err |-> "nil", flags |-> got, args |-> <<>>]
    ELSE LET s == args[1]
         IN IF Len(s) < 2 \/ s[1] # DASH
            THEN [err |-> "nil", flags |-> got, args |-> args]
            ELSE IF s = <<DASH, DASH>>
            THEN [err |-> "nil", flags |-> got, args |-> Tail(args)]
            ELSE LET full == IF s[2] = DASH THEN SubSeq(s, 3, Len(s))
                             ELSE SubSeq(s, 2, Len(s))
                     eq == EqualsAt(full)
                     name == IF eq = 0 THEN full ELSE SubSeq(full, 1, eq - 1)
                     hasValue == eq # 0 \/ Len(args) > 1
                     value == IF eq # 0 THEN SubSeq(full, eq + 1, Len(full))
                              ELSE IF Len(args) > 1 THEN args[2] ELSE <<>>
                     rest == IF eq # 0 THEN Tail(args) ELSE Tail(Tail(args))
                 IN IF full[1] = DASH \/ full[1] = EQUALS
                    THEN [err |-> "bad flag syntax", flags |-> got, args |-> args]
                    ELSE IF name \notin strs \cup bools
                    THEN [err |-> "flag provided but not defined",
                          flags |-> got, args |-> args]
                    ELSE IF ~hasValue
                    THEN [err |-> "flag needs an argument",
                          flags |-> got, args |-> args]
                    ELSE IF name \in bools
                    THEN IF ParseBool(value).ok
                         THEN flagParse(rest, strs, bools,
                                  [got EXCEPT ![name] = Ptr(ParseBool(value).v)])
                         ELSE [err |-> "invalid value", flags |-> got, args |-> args]
                    ELSE flagParse(rest, strs, bools,
                             [got EXCEPT ![name] = Ptr(value)])

W_password == <<"p", "a", "s", "s", "w", "o", "r", "d">>
W_realname == <<"r", "e", "a", "l", "n", "a", "m", "e">>
W_admin == <<"a", "d", "m", "i", "n">>

\* bcrypt.GenerateFromPassword
Hashed(password) == <<"bcrypt", password>>

\* The user records after the target's actor has handled an
\* eventUserUpdate: it sets the password and the admin flag given.
applyUserUpdate(users, target, hashed, admin) ==
    [users EXCEPT ![target] =
        [@ EXCEPT !.password = IF hashed.set THEN hashed.v ELSE @,
                  !.admin = IF admin.set THEN admin.v ELSE @]]

\* handleUserUpdate that accepts -admin on the caller's own record.
handleUserUpdateSelfAdmin(users, caller, params, fail) ==
    LET pop == popArg(params)
        parsed == flagParse(pop.params, {W_password, W_realname}, {W_admin},
                            [n \in {W_password, W_realname, W_admin} |-> Nil])
        password == parsed.flags[W_password]
        realname == parsed.flags[W_realname]
        admin == parsed.flags[W_admin]
        hashed == IF password.set THEN Ptr(Hashed(password.v)) ELSE Nil
    IN IF parsed.err # "nil" \/ Len(parsed.args) > 0 \/ fail
       THEN [users |-> users, err |-> "failed"]
       ELSE IF pop.arg # <<>> /\ pop.arg # caller
       THEN IF ~users[caller].admin \/ realname.set \/ pop.arg \notin DOMAIN users
            THEN [users |-> users, err |-> "failed"]
            ELSE [users |-> applyUserUpdate(users, pop.arg, hashed, admin),
                  err |-> "nil"]
       ELSE [users |-> [users EXCEPT ![caller] =
                 [@ EXCEPT !.password = IF hashed.set THEN hashed.v ELSE @,
                           !.realname = IF realname.set THEN realname.v ELSE @,
                           !.admin = IF admin.set THEN admin.v ELSE @]],
             err |-> "nil"]

\* handleUserUpdate(ctx, dc, params) for the caller dc.user: the user
\* records and the error on return. fail: the context is cancelled or the
\* store fails where the handler or the target's actor waits for them.
handleUserUpdate(users, caller, params, fail) ==
    LET pop == popArg(params)
        parsed == flagParse(pop.params, {W_password, W_realname}, {W_admin},
                            [n \in {W_password, W_realname, W_admin} |-> Nil])
        password == parsed.flags[W_password]
        realname == parsed.flags[W_realname]
        admin == parsed.flags[W_admin]
        hashed == IF password.set THEN Ptr(Hashed(password.v)) ELSE Nil
    IN IF parsed.err # "nil" THEN [users |-> users, err |-> parsed.err]
       ELSE IF Len(parsed.args) > 0
       THEN [users |-> users, err |-> "unexpected argument"]
       ELSE IF pop.arg # <<>> /\ pop.arg # caller
       THEN IF ~users[caller].admin
            THEN [users |-> users,
                  err |-> "you must be an admin to update other users"]
            ELSE IF realname.set
            THEN [users |-> users,
                  err |-> "cannot update -realname of other user"]
            ELSE IF pop.arg \notin DOMAIN users
            THEN [users |-> users, err |-> "unknown username"]
            ELSE IF fail THEN [users |-> users, err |-> "failed"]
            ELSE [users |-> applyUserUpdate(users, pop.arg, hashed, admin),
                  err |-> "nil"]
       ELSE IF admin.set
       THEN [users |-> users, err |-> "cannot update -admin of own user"]
       ELSE IF fail THEN [users |-> users, err |-> "failed"]
       ELSE [users |-> [users EXCEPT ![caller] =
                 [@ EXCEPT !.password = IF hashed.set THEN hashed.v ELSE @,
                           !.realname = IF realname.set THEN realname.v ELSE @]],
             err |-> "nil"]

\* The longest list of params of a user update in the model.
MaxUpdateParams == 3

UpdateUsernames == {<<"u", "1">>, <<"u", "2">>}

\* The words of a user update: user names, a word that is neither a name
\* nor a boolean, the flags in their spellings, and values.
UpdateWords ==
    UpdateUsernames \cup
    {<<"x">>, <<"t", "r", "u", "e">>, <<"f", "a", "l", "s", "e">>,
     <<DASH>> \o W_password, <<DASH>> \o W_realname, <<DASH>> \o W_admin,
     <<DASH, DASH>> \o W_admin,
     <<DASH>> \o W_admin \o <<EQUALS>> \o <<"t", "r", "u", "e">>}

\* Any set of user records meets any request: passwords and real names
\* play no part in what the handler decides.
InitUserUpdate ==
    /\ uuUsers \in [UpdateUsernames ->
                      [password : {<<"p">>}, realname : {<<"r">>}, admin : BOOLEAN]]
    /\ uuIn \in [caller : UpdateUsernames,
                 params : UNION {[1..n -> UpdateWords] : n \in 0..MaxUpdateParams}]
    /\ uuOut = NotCalled
    /\ Idle("uu")

HandleUserUpdate ==
    /\ ~uuOut.called
    /\ \E fail \in BOOLEAN :
         LET res == handleUserUpdate(uuUsers, uuIn.caller, uuIn.params, fail)
         IN /\ uuUsers' = res.users
            /\ uuOut' = [called |-> TRUE, err |-> res.err, users |-> uuUsers]
    /\ UNCHANGED uuIn
    /\ Frame("uu")

NextUserUpdate == HandleUserUpdate

SpecUserUpdate == InitUserUpdate /\ [][NextUserUpdate]_vars

----------------------------------------------------------------------------
(* service.go: certfp generate, sasl set-plain, sasl reset                 *)
(* db_sqlite.go: the SASL columns written by StoreNetwork                  *)

\* toNullString
toNullString(s) == IF s = "" THEN "NULL" ELSE s

\* A nil []byte.
NilBlob == "nil"

\* The SASL part of StoreNetwork(ctx, userID, network): the network as the
\* call leaves it, the values bound to the sasl_ columns, and the error.
storeNetworkSASL(sasl, fail) ==
    LET mech == sasl.Mechanism
        network == IF mech = "PLAIN"
                   THEN [sasl EXCEPT !.External =
                            [CertBlob |-> NilBlob, PrivKeyBlob |-> NilBlob]]
                   ELSE sasl
        row == [sasl_mechanism |-> toNullString(mech),
                sasl_plain_username |->
                    IF mech = "PLAIN" THEN toNullString(sasl.Plain.Username)
                    ELSE "NULL",
                sasl_plain_password |->
                    IF mech = "PLAIN" THEN toNullString(sasl.Plain.Password)
                    ELSE "NULL",
                sasl_external_cert |-> network.External.CertBlob,
                sasl_external_key |-> network.External.PrivKeyBlob]
    IN IF mech \notin {"", "PLAIN", "EXTERNAL"}
       THEN [network |-> sasl, stored |-> FALSE, row |-> row,
             err |-> "unsupported SASL mechanism"]
       ELSE IF fail
       THEN [network |-> network, stored |-> FALSE, row |-> row, err |-> "context"]
       ELSE [network |-> network, stored |-> TRUE, row |-> row, err |-> "nil"]

\* The names a SASL command may give: the user's network and another.
SASLNetworks == {"n1", "ghost"}
PlainUsernames == {"", "a", "b"}
PlainPasswords == {"", "p", "q"}
\* generateCertFP: the certificates and keys it may return.
Certs == {"cert1", "cert2"}
PrivKeys == {"key1", "key2"}

InitSASL ==
    /\ saslNet = [Mechanism |-> "",
                  Plain |-> [Username |-> "", Password |-> ""],
                  External |-> [CertBlob |-> NilBlob, PrivKeyBlob |-> NilBlob]]
    /\ saslRow = [sasl_mechanism |-> "NULL", sasl_plain_username |-> "NULL",
                  sasl_plain_password |-> "NULL",
                  sasl_external_cert |-> NilBlob, sasl_external_key |-> NilBlob]
    /\ saslFailed = FALSE
    /\ Idle("sasl")

\* The handler has set net.SASL to sasl and calls StoreNetwork.
SASLStore(sasl, fail) ==
    LET res == storeNetworkSASL(sasl, fail)
    IN /\ saslNet' = res.network
       /\ saslRow' = IF res.stored THEN res.row ELSE saslRow
       /\ saslFailed' = (saslFailed \/ ~res.stored)
       /\ Frame("sasl")

\* handleServiceCertFPGenerate
CertFPGenerate ==
    \E name \in SASLNetworks, genErr, fail \in BOOLEAN,
       cert \in Certs, privKey \in PrivKeys :
        IF name # "n1" \/ genErr
        THEN UNCHANGED vars
        ELSE SASLStore([saslNet EXCEPT !.External =
                            [CertBlob |-> cert, PrivKeyBlob |-> privKey],
                        !.Mechanism = "EXTERNAL"], fail)

\* handleServiceSASLSetPlain
SASLSetPlain ==
    \E name \in SASLNetworks, fail \in BOOLEAN,
       username \in PlainUsernames, password \in PlainPasswords :
        IF name # "n1"
        THEN UNCHANGED vars
        ELSE SASLStore([saslNet EXCEPT !.Plain =
                            [Username |-> username, Password |-> password],
                        !.Mechanism = "PLAIN"], fail)

\* handleServiceSASLReset
SASLReset ==
    \E name \in SASLNetworks, fail \in BOOLEAN :
        IF name # "n1"
        THEN UNCHANGED vars
        ELSE SASLStore([saslNet EXCEPT
                            !.Plain = [Username |-> "", Password |-> ""],
                            !.External = [CertBlob |-> NilBlob,
                                          PrivKeyBlob |-> NilBlob],
                            !.Mechanism = ""], fail)

NextSASL == CertFPGenerate \/ SASLSetPlain \/ SASLReset

SpecSASL == InitSASL /\ [][NextSASL]_vars

----------------------------------------------------------------------------
(* service.go: networkFlagSet.update and network update                    *)
(*                                                                         *)
(* An address is the sequence of its parts between "://" separators, the   *)
(* connect commands a sequence of strings. A flag of the flag set is Nil   *)
(* or Ptr of the value given last, as flagParse leaves it.                 *)

\* strings.SplitN(addr, "://", 2)
SplitN2(addr) ==
    IF Len(addr) < 2 THEN addr ELSE <<addr[1], Tail(addr)>>

\* irc.ParseMessage(command) returns no error.
ParseMessageOk(command) == command \notin {"", ":prefix"}

\* updateSentinel: update that takes an empty string, and false, for unset.
updateSentinel(fs, network) ==
    LET Str(f, old) == IF f.set /\ f.v # "" THEN f.v ELSE old
    IN [err |-> "nil",
        network |-> [network EXCEPT
            !.Addr = IF fs.Addr.set /\ fs.Addr.v # <<"">> THEN fs.Addr.v ELSE @,
            !.Name = Str(fs.Name, @), !.Nick = Str(fs.Nick, @),
            !.Username = Str(fs.Username, @), !.Pass = Str(fs.Pass, @),
            !.Realname = Str(fs.Realname, @),
            !.Enabled = IF fs.Enabled.set /\ fs.Enabled.v THEN TRUE ELSE @,
            !.ConnectCommands = IF fs.ConnectCommands # <<>> /\ fs.ConnectCommands # <<"">>
                                THEN fs.ConnectCommands ELSE @]]

\* fs.update(network): the record after the call and the error.
update(fs, network) ==
    LET Str(f, old) == IF f.set THEN f.v ELSE old
        n1 == [network EXCEPT
                  !.Addr = Str(fs.Addr, @), !.Name = Str(fs.Name, @),
                  !.Nick = Str(fs.Nick, @), !.Username = Str(fs.Username, @),
                  !.Pass = Str(fs.Pass, @), !.Realname = Str(fs.Realname, @),
                  !.Enabled = Str(fs.Enabled, @)]
    IN IF /\ fs.Addr.set
          /\ Len(SplitN2(fs.Addr.v)) = 2
          /\ SplitN2(fs.Addr.v)[1] \notin {"ircs", "irc+insecure", "unix"}
       THEN [err |-> "unknown scheme", network |-> network]
       ELSE IF fs.ConnectCommands = <<>> THEN [err |-> "nil", network |-> n1]
       ELSE IF fs.ConnectCommands = <<"">>
       THEN [err |-> "nil", network |-> [n1 EXCEPT !.ConnectCommands = <<>>]]
       ELSE IF \E i \in DOMAIN fs.ConnectCommands :
                 ~ParseMessageOk(fs.ConnectCommands[i])
       THEN [err |-> "flag -connect-command must be a valid raw irc command string",
             network |-> n1]
       ELSE [err |-> "nil",
             network |-> [n1 EXCEPT !.ConnectCommands = fs.ConnectCommands]]

\* handleServiceNetworkUpdate after its flags are parsed: the user's
\* network record and the error on return. fail: updateNetwork fails.
handleServiceNetworkUpdate(net, fs, known, fail) ==
    IF ~known THEN [net |-> net, err |-> "unknown network"]
    ELSE LET res == update(fs, net)
         IN IF res.err # "nil" THEN [net |-> net, err |-> res.err]
            ELSE IF fail THEN [net |-> net, err |-> "could not update network"]
            ELSE [net |-> res.network, err |-> "nil"]

NetworkFlagSets ==
    LET StrFlag(v) == {Nil, Ptr(""), Ptr(v)}
    IN [Addr : {Nil, Ptr(<<"">>), Ptr(<<"h2">>), Ptr(<<"unix", "p">>),
                Ptr(<<"http", "h2">>)},
        Name : StrFlag("n2"), Nick : StrFlag("k2"), Username : StrFlag("u2"),
        Pass : StrFlag("p2"), Realname : StrFlag("r2"),
        Enabled : {Nil, Ptr(FALSE), Ptr(TRUE)},
        ConnectCommands : {<<>>, <<"">>, <<"JOIN #a">>, <<"", "">>,
                           <<"JOIN #a", ":prefix">>, <<"JOIN #a", "JOIN #b">>}]

InitNetworkUpdate ==
    /\ nuNet \in [Addr : {<<"ircs", "h1">>}, Name : {"", "n1"}, Nick : {"k1"},
                  Username : {"u1"}, Pass : {"p1"}, Realname : {"r1"},
                  Enabled : BOOLEAN, ConnectCommands : {<<>>, <<"MODE +i">>}]
    /\ nuIn \in [fs : NetworkFlagSets, known : BOOLEAN]
    /\ nuOut = NotCalled
    /\ Idle("nu")

HandleServiceNetworkUpdate ==
    /\ ~nuOut.called
    /\ \E fail \in BOOLEAN :
         LET res == handleServiceNetworkUpdate(nuNet, nuIn.fs, nuIn.known, fail)
         IN /\ nuNet' = res.net
            /\ nuOut' = [called |-> TRUE, err |-> res.err, net |-> nuNet]
    /\ UNCHANGED nuIn
    /\ Frame("nu")

NextNetworkUpdate == HandleServiceNetworkUpdate

SpecNetworkUpdate == InitNetworkUpdate /\ [][NextNetworkUpdate]_vars

----------------------------------------------------------------------------
(* bridge.go: sendNames                                                    *)
(*                                                                         *)
(* Strings are held by their lengths in bytes: a member's entry            *)
(* (memberships.Format(dc.caps) and the marshaled nick) is its length,     *)
(* buf the sequence of the entries written to it.                          *)

\* ircutil.MaxMessageLen
MaxMessageLen == 512

\* Most members of a channel, and the longest entry of a member.
MaxMembers == 5
MaxEntryLen == 3

\* len(dc.srv.prefix().String()) and len(dc.nick) of the model.
PrefixLen == 4
NickLen == 4

\* buf.Len(): the entries and a space between each two.
BufLen(buf) ==
    LET RECURSIVE Sum(_)
        Sum(i) == IF i = 0 THEN 0 ELSE buf[i] + Sum(i - 1)
    IN IF buf = <<>> THEN 0 ELSE Sum(Len(buf)) + (Len(buf) - 1)

\* len(msg.String()) of an RPL_NAMREPLY with the names buf: the prefix
\* after ":", "353", dc.nick, the status byte, the channel's name and the
\* names, each after a space; the names after ":" as well when they are
\* empty or hold a space.
NameReplyLen(nameLen, buf) ==
    1 + PrefixLen + 1 + 3 + 1 + NickLen + 1 + 1 + 1 + nameLen + 1
      + (IF Len(buf) # 1 THEN 1 ELSE 0) + BufLen(buf)

\* The bytes SendMessage writes for a message: its String() and CR LF.
WireLen(stringLen) == stringLen + 2

\* maxLength
maxLength(nameLen) == MaxMessageLen - NameReplyLen(nameLen, <<>>)

NameLens == {478, 480, 483, 485}

InitNames ==
    /\ snIn \in [nameLen : NameLens,
                 entries : UNION {[1..n -> 1..MaxEntryLen] : n \in 0..MaxMembers}]
    /\ snI = 1
    /\ snBuf = <<>>
    /\ snSent = <<>>
    /\ Idle("names")

\* One pass of the loop over ch.Members.
SendNamesMember ==
    /\ snI \in 1..Len(snIn.entries)
    /\ LET s == snIn.entries[snI]
           n == BufLen(snBuf) + 1 + s
           flush == BufLen(snBuf) # 0 /\ n > maxLength(snIn.nameLen)
       IN /\ snSent' = IF flush
                       THEN Append(snSent,
                                [command |-> "RPL_NAMREPLY",
                                 bytes |-> WireLen(NameReplyLen(snIn.nameLen, snBuf)),
                                 names |-> snBuf])
                       ELSE snSent
          /\ snBuf' = IF flush THEN <<s>> ELSE Append(snBuf, s)
    /\ snI' = snI + 1
    /\ UNCHANGED snIn
    /\ Frame("names")

\* After the loop: the last reply, if any, and RPL_ENDOFNAMES.
SendNamesEnd ==
    /\ snI = Len(snIn.entries) + 1
    /\ snSent' = (IF BufLen(snBuf) # 0
                  THEN Append(snSent,
                           [command |-> "RPL_NAMREPLY",
                            bytes |-> WireLen(NameReplyLen(snIn.nameLen, snBuf)),
                            names |-> snBuf])
                  ELSE snSent)
                 \o <<[command |-> "RPL_ENDOFNAMES",
                       bytes |-> WireLen(1 + PrefixLen + 1 + 3 + 1 + NickLen + 1
                                         + snIn.nameLen + 2 + 18),
                       names |-> <<>>]>>
    /\ snI' = snI + 1
    /\ UNCHANGED <<snIn, snBuf>>
    /\ Frame("names")

NextNames == SendNamesMember \/ SendNamesEnd

SpecNames == InitNames /\ [][NextNames]_vars

----------------------------------------------------------------------------
(* service.go: user delete                                                 *)
(*                                                                         *)
(* A handler runs in its caller's actor. u.stop() puts a stop event into   *)
(* u's inbox and returns when u's actor has ended; the actor takes events  *)
(* between handlers and, on ending, leaves the server's users.             *)

\* The admins that call user delete, and the names they may give.
Deleters == {"u1", "u2"}
\* The users of the server.
ServerUsers == {"u1", "u2", "u3"}
DeleteNames == ServerUsers \cup {"ghost"}

\* u.ID
UserID(name) == IF name = "u1" THEN 1 ELSE IF name = "u2" THEN 2 ELSE 3

InitUserDelete ==
    /\ udPc = [c \in Deleters |-> "idle"]
    /\ udTarget = [c \in Deleters |-> ""]
    /\ udErr = [c \in Deleters |-> "nil"]
    /\ udRunning = [u \in ServerUsers |-> TRUE]
    /\ udInbox = [u \in ServerUsers |-> 0]
    /\ udDB = DB({[id |-> UserID(u), username |-> u, password |-> "p1"] : u \in ServerUsers},
                 {[id |-> UserID(u), user |-> UserID(u), name |-> "n1"] : u \in ServerUsers},
                 {}, {})
    /\ udLog = {}
    /\ Idle("ud")

\* handleUserDelete up to dc.srv.getUser(username).
UserDeleteGetUser(c) ==
    \E name \in DeleteNames :
        /\ udPc[c] = "idle" /\ udRunning[c]
        /\ udTarget' = [udTarget EXCEPT ![c] = name]
        /\ IF name \in ServerUsers /\ udRunning[name]
           THEN udPc' = [udPc EXCEPT ![c] = "stop"] /\ UNCHANGED udErr
           ELSE /\ udPc' = [udPc EXCEPT ![c] = "returned"]
                /\ udErr' = [udErr EXCEPT ![c] = "unknown username"]
        /\ UNCHANGED <<udRunning, udInbox, udDB, udLog>>
        /\ Frame("ud")

\* u.stop(): the stop event is sent.
UserDeleteStop(c) ==
    /\ udPc[c] = "stop"
    /\ udInbox' = [udInbox EXCEPT ![udTarget[c]] = @ + 1]
    /\ udLog' = udLog \cup {[by |-> c, op |-> "stop", user |-> udTarget[c],
                             running |-> udRunning[udTarget[c]]]}
    /\ udPc' = [udPc EXCEPT ![c] = "stopping"]
    /\ UNCHANGED <<udTarget, udErr, udRunning, udDB>>
    /\ Frame("ud")

\* The actor of u takes a stop event and ends.
UserRunStop(u) ==
    /\ udRunning[u] /\ udInbox[u] > 0
    /\ u \in Deleters => udPc[u] \in {"idle", "returned"}
    /\ udRunning' = [udRunning EXCEPT ![u] = FALSE]
    /\ udInbox' = [udInbox EXCEPT ![u] = @ - 1]
    /\ UNCHANGED <<udPc, udTarget, udErr, udDB, udLog>>
    /\ Frame("ud")

\* u.stop() returns.
UserDeleteStopped(c) ==
    /\ udPc[c] = "stopping"
    /\ ~udRunning[udTarget[c]]
    /\ udPc' = [udPc EXCEPT ![c] = "DeleteUser"]
    /\ UNCHANGED <<udTarget, udErr, udRunning, udInbox, udDB, udLog>>
    /\ Frame("ud")

\* handleUserDelete that calls DeleteUser while u.stop() has not returned.
UserDeleteDeleteUserEarly(c) ==
    \E failAt \in {0, 1} :
        LET res == DeleteUser(udDB, UserID(udTarget[c]), failAt)
        IN /\ udPc[c] \in {"stopping", "DeleteUser"}
           /\ udDB' = res.db
           /\ udLog' = udLog \cup {[by |-> c, op |-> "DeleteUser", user |-> udTarget[c],
                                    running |-> udRunning[udTarget[c]]]}
           /\ udErr' = [udErr EXCEPT ![c] =
                           IF res.err = "nil" THEN "nil" ELSE "failed to delete user"]
           /\ udPc' = [udPc EXCEPT ![c] = "returned"]
           /\ UNCHANGED <<udTarget, udRunning, udInbox>>
           /\ Frame("ud")

\* dc.srv.db.DeleteUser(ctx, u.ID) and the return.
UserDeleteDeleteUser(c) ==
    \E failAt \in {0, 1} :
        LET res == DeleteUser(udDB, UserID(udTarget[c]), failAt)
        IN /\ udPc[c] = "DeleteUser"
           /\ udDB' = res.db
           /\ udLog' = udLog \cup {[by |-> c, op |-> "DeleteUser", user |-> udTarget[c],
                                    running |-> udRunning[udTarget[c]]]}
           /\ udErr' = [udErr EXCEPT ![c] =
                           IF res.err = "nil" THEN "nil" ELSE "failed to delete user"]
           /\ udPc' = [udPc EXCEPT ![c] = "returned"]
           /\ UNCHANGED <<udTarget, udRunning, udInbox>>
           /\ Frame("ud")

NextUserDelete ==
    \/ \E c \in Deleters :
           \/ UserDeleteGetUser(c)
           \/ UserDeleteStop(c)
           \/ UserDeleteStopped(c)
           \/ UserDeleteDeleteUser(c)
    \/ \E u \in ServerUsers : UserRunStop(u)

SpecUserDelete == InitUserDelete /\ [][NextUserDelete]_vars

----------------------------------------------------------------------------
(* db_sqlite.go: db.lock                                                   *)
(*                                                                         *)
(* Every method of SqliteDB takes db.lock first and releases it, deferred, *)
(* on return. A sync.RWMutex admits any number of read locks or one write  *)
(* lock; a Lock that waits for readers to leave holds back new RLocks.     *)

\* The goroutines that call the store.
DBCallers == {"g1", "g2", "g3"}

\* LockKind with StoreChannel taking the read lock.
LockKindStoreChannelRead(op) ==
    IF op \in {"Stats", "ListUsers", "GetUser", "ListNetworks", "ListChannels",
               "ListDeliveryReceipts", "StoreChannel"}
    THEN "RLock" ELSE "Lock"

\* The lock each method takes.
LockKind(op) ==
    IF op \in {"Stats", "ListUsers", "GetUser", "ListNetworks", "ListChannels",
               "ListDeliveryReceipts"}
    THEN "RLock"
    ELSE IF op \in {"Close", "upgrade", "StoreUser", "DeleteUser", "StoreNetwork",
                    "DeleteNetwork", "StoreChannel", "DeleteChannel",
                    "StoreClientDeliveryReceipts"}
    THEN "Lock"
    ELSE "none"

ReadOps == {"Stats", "ListUsers", "GetUser", "ListNetworks", "ListChannels",
            "ListDeliveryReceipts"}
WriteOps == {"Close", "upgrade", "StoreUser", "DeleteUser", "StoreNetwork",
             "DeleteNetwork", "StoreChannel", "DeleteChannel",
             "StoreClientDeliveryReceipts"}

InitLock ==
    /\ lkPc = [g \in DBCallers |-> "idle"]
    /\ lkOp = [g \in DBCallers |-> "none"]
    /\ lkReaders = 0
    /\ lkWriter = "none"
    /\ lkPending = "none"
    /\ Idle("lock")

\* A goroutine calls a method of the store.
LockCall(g) ==
    \E op \in ReadOps \cup WriteOps :
        /\ lkPc[g] = "idle"
        /\ lkOp' = [lkOp EXCEPT ![g] = op]
        /\ lkPc' = [lkPc EXCEPT ![g] = "lock"]
        /\ UNCHANGED <<lkReaders, lkWriter, lkPending>>
        /\ Frame("lock")

\* db.lock.RLock() returns.
LockRLock(g) ==
    /\ lkPc[g] = "lock" /\ LockKind(lkOp[g]) = "RLock"
    /\ lkWriter = "none" /\ lkPending = "none"
    /\ lkReaders' = lkReaders + 1
    /\ lkPc' = [lkPc EXCEPT ![g] = "body"]
    /\ UNCHANGED <<lkOp, lkWriter, lkPending>>
    /\ Frame("lock")

\* db.lock.Lock() has passed the other writers and waits for the readers.
LockLockPending(g) ==
    /\ lkPc[g] = "lock" /\ LockKind(lkOp[g]) = "Lock"
    /\ lkWriter = "none" /\ lkPending = "none"
    /\ lkPending' = g
    /\ lkPc' = [lkPc EXCEPT ![g] = "pending"]
    /\ UNCHANGED <<lkOp, lkReaders, lkWriter>>
    /\ Frame("lock")

\* db.lock.Lock() returns.
LockLock(g) ==
    /\ lkPc[g] = "pending"
    /\ lkReaders = 0
    /\ lkWriter' = g
    /\ lkPending' = "none"
    /\ lkPc' = [lkPc EXCEPT ![g] = "body"]
    /\ UNCHANGED <<lkOp, lkReaders>>
    /\ Frame("lock")

\* The method returns: the deferred RUnlock or Unlock runs.
LockReturn(g) ==
    /\ lkPc[g] = "body"
    /\ IF LockKind(lkOp[g]) = "RLock"
       THEN lkReaders' = lkReaders - 1 /\ UNCHANGED lkWriter
       ELSE lkWriter' = "none" /\ UNCHANGED lkReaders
    /\ lkPc' = [lkPc EXCEPT ![g] = "idle"]
    /\ lkOp' = [lkOp EXCEPT ![g] = "none"]
    /\ UNCHANGED lkPending
    /\ Frame("lock")

NextLock ==
    \E g \in DBCallers :
        \/ LockCall(g)
        \/ LockRLock(g)
        \/ LockLockPending(g)
        \/ LockLock(g)
        \/ LockReturn(g)

SpecLock == InitLock /\ [][NextLock]_vars

----------------------------------------------------------------------------
(* service.go: channelFlagSet.update and channel update                    *)
(* db_sqlite.go: detach_after in StoreChannel and ListChannels             *)
(*                                                                         *)
(* A time.Duration is a signed integer of DurationBits bits counting       *)
(* ticks, Second ticks to the second. Go has 64 bits and 10^9 ticks; the   *)
(* model keeps the shape with small numbers: the largest duration is not a *)
(* whole number of seconds.                                                *)

DurationBits == 8
Second == 10

Pow2(n) == IF n = 0 THEN 1 ELSE 2 * (2 ^ (n - 1))

\* The largest time.Duration.
MaxDuration == Pow2(DurationBits - 1) - 1

\* An integer as a time.Duration: the low DurationBits bits, signed.
WrapDuration(x) ==
    ((x + Pow2(DurationBits - 1)) % Pow2(DurationBits)) - Pow2(DurationBits - 1)

\* int64(math.Ceil(d.Seconds()))
CeilSeconds(d) == -((-d) \div Second)

\* time.Duration(detachAfter) * time.Second
LoadDetachAfter(detachAfter) == WrapDuration(detachAfter * Second)

\* time.ParseDuration of a flag's word: a word is a duration of some ticks
\* or no duration at all.
ParseDuration(word) ==
    IF word.valid THEN [dur |-> word.ticks, err |-> "nil"]
    ELSE [dur |-> 0, err |-> "invalid duration"]

\* parseFilter
Filters == {"default", "none", "highlight", "message"}
parseFilter(word) ==
    IF word \in Filters THEN [filter |-> word, err |-> "nil"]
    ELSE [filter |-> "default", err |-> "unknown filter"]

\* fs.update(channel): the channel as the call leaves it and the error.
\* The fields are assigned one after the other on the channel itself.
channelUpdate(fs, channel) ==
    LET relay == parseFilter(fs.RelayDetached.v)
        c1 == IF fs.RelayDetached.set
              THEN [channel EXCEPT !.RelayDetached = relay.filter] ELSE channel
        reattach == parseFilter(fs.ReattachOn.v)
        c2 == IF fs.ReattachOn.set
              THEN [c1 EXCEPT !.ReattachOn = reattach.filter] ELSE c1
        after == ParseDuration(fs.DetachAfter.v)
        c3 == IF fs.DetachAfter.set
              THEN [c2 EXCEPT !.DetachAfter = after.dur] ELSE c2
        on == parseFilter(fs.DetachOn.v)
        c4 == IF fs.DetachOn.set
              THEN [c3 EXCEPT !.DetachOn = on.filter] ELSE c3
    IN IF fs.RelayDetached.set /\ relay.err # "nil"
       THEN [channel |-> channel, err |-> relay.err]
       ELSE IF fs.ReattachOn.set /\ reattach.err # "nil"
       THEN [channel |-> c1, err |-> reattach.err]
       ELSE IF fs.DetachAfter.set /\ (after.err # "nil" \/ after.dur < 0)
       THEN [channel |-> c2, err |-> "unknown duration for -detach-after"]
       ELSE IF fs.DetachOn.set /\ on.err # "nil"
       THEN [channel |-> c3, err |-> on.err]
       ELSE [channel |-> c4, err |-> "nil"]

\* The values StoreChannel binds to the columns of the settings.
ChannelRow(ch) ==
    [relay_detached |-> ch.RelayDetached, reattach_on |-> ch.ReattachOn,
     detach_after |-> CeilSeconds(ch.DetachAfter), detach_on |-> ch.DetachOn]

\* handleServiceChannelUpdate after its flags are parsed, for a channel ch
\* with the row given: both and the error on return. fail: StoreChannel
\* fails.
handleServiceChannelUpdate(ch, row, fs, known, fail) ==
    IF ~known THEN [ch |-> ch, row |-> row, err |-> "unknown channel"]
    ELSE LET res == channelUpdate(fs, ch)
         IN IF res.err # "nil" THEN [ch |-> res.channel, row |-> row, err |-> res.err]
            ELSE IF fail
            THEN [ch |-> res.channel, row |-> row, err |-> "failed to update channel"]
            ELSE [ch |-> res.channel, row |-> ChannelRow(res.channel), err |-> "nil"]

\* The words given to -detach-after.
DurationWords ==
    {[valid |-> FALSE, ticks |-> 0]} \cup
    [valid : {TRUE}, ticks : (0 - MaxDuration)..MaxDuration]

NoChannelFlags ==
    [RelayDetached |-> Nil, ReattachOn |-> Nil, DetachAfter |-> Nil, DetachOn |-> Nil]

InitDetach ==
    /\ cuCh = [RelayDetached |-> "default", ReattachOn |-> "default",
               DetachAfter |-> 0, DetachOn |-> "default"]
    /\ cuRow = ChannelRow(cuCh)
    /\ cuLast = NotCalled
    /\ Idle("cu")

\* channel update <name> -detach-after <word>
DetachUpdate ==
    \E word \in DurationWords, fail \in BOOLEAN :
        LET res == handleServiceChannelUpdate(cuCh, cuRow,
                       [NoChannelFlags EXCEPT !.DetachAfter = Ptr(word)], TRUE, fail)
        IN /\ cuCh' = res.ch
           /\ cuRow' = res.row
           /\ UNCHANGED cuLast
           /\ Frame("cu")

\* The server starts anew: ListChannels reads the channel from its row.
DetachListChannels ==
    /\ cuCh' = [RelayDetached |-> cuRow.relay_detached,
                ReattachOn |-> cuRow.reattach_on,
                DetachAfter |-> LoadDetachAfter(cuRow.detach_after),
                DetachOn |-> cuRow.detach_on]
    /\ UNCHANGED <<cuRow, cuLast>>
    /\ Frame("cu")

NextDetach == DetachUpdate \/ DetachListChannels

SpecDetach == InitDetach /\ [][NextDetach]_vars

----------------------------------------------------------------------------
(* bridge.go: forwardChannel and sendTopic                                 *)

\* sendTopic that names the setter before the topic.
sendTopicWhoFirst(ch) ==
    IF ch.Topic # ""
    THEN (IF ch.TopicWho # "nil" THEN <<[command |-> "RPL_TOPICWHOTIME"]>>
          ELSE <<>>) \o <<[command |-> "RPL_TOPIC"]>>
    ELSE <<[command |-> "RPL_NOTOPIC"]>>

\* sendTopic(dc, ch): the messages it sends.
sendTopic(ch) ==
    IF ch.Topic # ""
    THEN <<[command |-> "RPL_TOPIC"]>> \o
         (IF ch.TopicWho # "nil" THEN <<[command |-> "RPL_TOPICWHOTIME"]>>
          ELSE <<>>)
    ELSE <<[command |-> "RPL_NOTOPIC"]>>

InitForward ==
    /\ fcIn \in [complete : BOOLEAN, Topic : {"", "topic"},
                 TopicWho : {"nil", "who"}]
    /\ fcPc = "start"
    /\ snIn \in [nameLen : {478},
                 entries : UNION {[1..n -> {1, MaxEntryLen}] : n \in 0..MaxMembers}]
    /\ snI = 1
    /\ snBuf = <<>>
    /\ snSent = <<>>
    /\ Idle("fc")

\* if !ch.complete { panic(...) }
ForwardPanic ==
    /\ fcPc = "start" /\ ~fcIn.complete
    /\ fcPc' = "panicked"
    /\ UNCHANGED <<fcIn, snIn, snI, snBuf, snSent>>
    /\ Frame("fc")

\* sendTopic(dc, ch)
ForwardSendTopic ==
    /\ fcPc = "start" /\ fcIn.complete
    /\ snSent' = snSent \o sendTopic(fcIn)
    /\ fcPc' = "sendNames"
    /\ UNCHANGED <<fcIn, snIn, snI, snBuf>>
    /\ Frame("fc")

\* sendNames(dc, ch)
ForwardSendNames ==
    /\ fcPc = "sendNames"
    /\ (SendNamesMember \/ SendNamesEnd)

NextForward == ForwardPanic \/ ForwardSendTopic \/ ForwardSendNames

SpecForward == InitForward /\ [][NextForward]_vars

----------------------------------------------------------------------------
(* ircutil.Join and joinSorter                                             *)
(*                                                                         *)
(* A channel name is its rank in byte order and its length; a key is the   *)
(* channel it was given for and its length, NoKey being the empty string.  *)
(* A buffer is the sequence of the words written to it, commas between.    *)

MaxChannels == 3

Channel(rank, len) == [rank |-> rank, len |-> len]
Key(rank, len) == [for |-> rank, len |-> len]
NoKey == [for |-> 0, len |-> 0]

\* Less ordering by name only.
LessByName(js, i, j) == js.channels[i].rank < js.channels[j].rank

\* joinSorter.Less
Less(js, i, j) ==
    IF (js.keys[i] # NoKey) # (js.keys[j] # NoKey)
    THEN js.keys[i] # NoKey
    ELSE js.channels[i].rank < js.channels[j].rank

\* sort.Sort(&js): channels and keys swapped together into Less order.
joinSort(js) ==
    LET n == Len(js.channels)
        p == CHOOSE q \in [1..n -> 1..n] :
               /\ \A i, j \in 1..n : i # j => q[i] # q[j]
               /\ \A i, j \in 1..n : i < j => ~Less(js, q[j], q[i])
    IN [channels |-> [i \in 1..n |-> js.channels[p[i]]],
        keys |-> [i \in 1..n |-> js.keys[p[i]]]]

\* strings.Builder.Len() of words joined by commas.
RECURSIVE WordsLen(_)
WordsLen(buf) ==
    IF buf = <<>> THEN 0
    ELSE IF Len(buf) = 1 THEN buf[1].len
    ELSE buf[1].len + 1 + WordsLen(Tail(buf))

\* The JOIN message made of the two buffers.
joinMessage(channelsBuf, keysBuf) ==
    [Command |-> "JOIN",
     Params |-> IF WordsLen(keysBuf) > 0 THEN <<channelsBuf, keysBuf>>
                ELSE <<channelsBuf>>]

\* The loop of Join from the i-th channel on, and the flush after it.
RECURSIVE joinLoop(_, _, _, _, _)
joinLoop(js, i, msgs, channelsBuf, keysBuf) ==
    IF i > Len(js.channels)
    THEN IF WordsLen(channelsBuf) > 0
         THEN Append(msgs, joinMessage(channelsBuf, keysBuf))
         ELSE msgs
    ELSE LET channel == js.channels[i]
             key == js.keys[i]
             maxLen == MaxMessageLen - (4 + 2)
             n == WordsLen(channelsBuf) + WordsLen(keysBuf) + 1 + channel.len
                  + (IF key # NoKey THEN 1 + key.len ELSE 0)
             full == WordsLen(channelsBuf) > 0 /\ n > maxLen
             cb == IF full THEN <<>> ELSE channelsBuf
             kb == IF full THEN <<>> ELSE keysBuf
         IN joinLoop(js, i + 1,
                IF full THEN Append(msgs, joinMessage(channelsBuf, keysBuf))
                ELSE msgs,
                Append(cb, channel),
                IF key # NoKey THEN Append(kb, key) ELSE kb)

\* Join(channels, keys)
Join(channels, keys) ==
    joinLoop(joinSort([channels |-> channels, keys |-> keys]), 1,
             <<>>, <<>>, <<>>)

\* Short and long names and keys.
WordLens == {1, 250}

\* A channel with the key given for it, or with none.
JoinPairs ==
    {[channel |-> Channel(r, l), key |-> k] :
       r \in 1..MaxChannels, l \in WordLens, k \in {NoKey}} \cup
    {[channel |-> Channel(r, l), key |-> Key(r, kl)] :
       r \in 1..MaxChannels, l \in WordLens, kl \in WordLens}

InitJoin ==
    /\ \E n \in 0..MaxChannels :
         \E pairs \in [1..n -> JoinPairs] :
           /\ \A i, j \in 1..n :
                i # j => pairs[i].channel.rank # pairs[j].channel.rank
           /\ jnIn = [channels |-> [i \in 1..n |-> pairs[i].channel],
                      keys |-> [i \in 1..n |-> pairs[i].key]]
    /\ jnOut = NotCalled
    /\ Idle("join")

JoinCall ==
    /\ ~jnOut.called
    /\ jnOut' = [called |-> TRUE, msgs |-> Join(jnIn.channels, jnIn.keys)]
    /\ UNCHANGED jnIn
    /\ Frame("join")

NextJoin == JoinCall

SpecJoin == InitJoin /\ [][NextJoin]_vars

----------------------------------------------------------------------------
(* service.go: network create and network update on the user's networks    *)
(*                                                                         *)
(* The user's networks are a sequence of records, the store's rows a       *)
(* sequence of the same records in the same order. createNetwork and       *)
(* updateNetwork either fail and change nothing or store the record and    *)
(* put it in memory.                                                       *)

\* handleServiceNetworkCreate that creates the network before it tests
\* the flags.
handleServiceNetworkCreateUntested(nets, rows, fs, fail) ==
    IF fs.Addr = Nil
    THEN [nets |-> nets, rows |-> rows, err |-> "flag -addr is required"]
    ELSE LET record == [Addr |-> fs.Addr.v, Name |-> "", Nick |-> "",
                        Username |-> "", Pass |-> "", Realname |-> "",
                        Enabled |-> TRUE, ConnectCommands |-> <<>>]
             res == update(fs, record)
         IN IF fail
            THEN [nets |-> nets, rows |-> rows,
                  err |-> "could not create network"]
            ELSE [nets |-> Append(nets, res.network),
                  rows |-> Append(rows, res.network), err |-> res.err]

\* handleServiceNetworkCreate after its flags are parsed: the networks in
\* memory and in the store and the error on return. fail: createNetwork
\* fails.
handleServiceNetworkCreate(nets, rows, fs, fail) ==
    IF fs.Addr = Nil
    THEN [nets |-> nets, rows |-> rows, err |-> "flag -addr is required"]
    ELSE LET record == [Addr |-> fs.Addr.v, Name |-> "", Nick |-> "",
                        Username |-> "", Pass |-> "", Realname |-> "",
                        Enabled |-> TRUE, ConnectCommands |-> <<>>]
             res == update(fs, record)
         IN IF res.err # "nil"
            THEN [nets |-> nets, rows |-> rows, err |-> res.err]
            ELSE IF fail
            THEN [nets |-> nets, rows |-> rows,
                  err |-> "could not create network"]
            ELSE [nets |-> Append(nets, res.network),
                  rows |-> Append(rows, res.network), err |-> "nil"]

\* The flags of a network command: an address with a known scheme, with an
\* unknown one or with none, a nick, -enabled, and connect commands that
\* parse or do not.
NetworkCommandFlags ==
    [Addr : {Nil, Ptr(<<"h2">>), Ptr(<<"unix", "p">>), Ptr(<<"http", "h2">>)},
     Name : {Nil}, Nick : {Nil, Ptr("k2")}, Username : {Nil}, Pass : {Nil},
     Realname : {Nil}, Enabled : {Nil, Ptr(FALSE)},
     ConnectCommands : {<<>>, <<"">>, <<"JOIN #a">>, <<"JOIN #a", ":prefix">>}]

InitNetwork ==
    /\ ncNets \in {<<>>} \cup
         {<<n>> : n \in [Addr : {<<"ircs", "h1">>}, Name : {"n1"},
                         Nick : {"k1"}, Username : {"u1"}, Pass : {"p1"},
                         Realname : {"r1"}, Enabled : BOOLEAN,
                         ConnectCommands : {<<>>, <<"MODE +i">>}]}
    /\ ncRows = ncNets
    /\ ncIn \in [op : {"create", "update"}, fs : NetworkCommandFlags,
                 known : BOOLEAN]
    /\ ncIn.known => ncNets # <<>>
    /\ ncOut = NotCalled
    /\ Idle("nc")

NetworkCreate ==
    /\ ~ncOut.called /\ ncIn.op = "create"
    /\ \E fail \in BOOLEAN :
         LET res == handleServiceNetworkCreate(ncNets, ncRows, ncIn.fs, fail)
         IN /\ ncNets' = res.nets
            /\ ncRows' = res.rows
            /\ ncOut' = [called |-> TRUE, err |-> res.err,
                         nets |-> ncNets, rows |-> ncRows]
    /\ UNCHANGED ncIn
    /\ Frame("nc")

NetworkUpdate ==
    /\ ~ncOut.called /\ ncIn.op = "update"
    /\ \E fail \in BOOLEAN :
         LET net == IF ncIn.known THEN ncNets[1] ELSE <<>>
             res == handleServiceNetworkUpdate(net, ncIn.fs, ncIn.known, fail)
         IN /\ ncNets' = IF ncIn.known THEN <<res.net>> ELSE ncNets
            /\ ncRows' = IF ncIn.known THEN <<res.net>> ELSE ncRows
            /\ ncOut' = [called |-> TRUE, err |-> res.err,
                         nets |-> ncNets, rows |-> ncRows]
    /\ UNCHANGED ncIn
    /\ Frame("nc")

NextNetwork == NetworkCreate \/ NetworkUpdate

SpecNetwork == InitNetwork /\ [][NextNetwork]_vars

----------------------------------------------------------------------------
(* service.go: channel update with several flags                           *)

\* The flags of a channel update: each filter absent, valid or unknown,
\* the duration absent, valid, negative or unparsable.
ChannelFlagSets ==
    LET FilterFlag == {Nil, Ptr("highlight"), Ptr("bogus")}
    IN [RelayDetached : FilterFlag, ReattachOn : FilterFlag,
        DetachAfter : {Nil, Ptr([valid |-> TRUE, ticks |-> 2 * Second]),
                       Ptr([valid |-> TRUE, ticks |-> 0 - Second]),
                       Ptr([valid |-> FALSE, ticks |-> 0])},
        DetachOn : FilterFlag]

InitChannelUpdate ==
    /\ cuCh \in [RelayDetached : {"default", "message"},
                 ReattachOn : {"default"}, DetachAfter : {0, Second},
                 DetachOn : {"default"}]
    /\ cuRow = ChannelRow(cuCh)
    /\ cuLast = NotCalled
    /\ Idle("cu")

\* channel update <name> <flags>
ChannelUpdate ==
    /\ ~cuLast.called
    /\ \E fs \in ChannelFlagSets, known \in BOOLEAN, fail \in BOOLEAN :
         LET res == handleServiceChannelUpdate(cuCh, cuRow, fs, known, fail)
         IN /\ cuCh' = res.ch
            /\ cuRow' = res.row
            /\ cuLast' = [called |-> TRUE, err |-> res.err, fs |-> fs,
                          ch |-> cuCh, row |-> cuRow]
    /\ Frame("cu")

NextChannelUpdate == ChannelUpdate

SpecChannelUpdate == InitChannelUpdate /\ [][NextChannelUpdate]_vars

----------------------------------------------------------------------------
(* The words of a command line as the tokenizer's contract states them.    *)

\* A scan that classifies each character: escaped and quoted characters are
\* literal, an unquoted unescaped space separates, quotes and the escaping
\* backslash are syntax. inWord: the current word has begun.
refScanInit ==
    [words |-> <<>>, cur |-> <<>>, inWord |-> FALSE, quote |-> SPACE,
     esc |-> FALSE]

refScanStep(st, r) ==
    IF st.esc
    THEN [st EXCEPT !.cur = Append(@, r), !.esc = FALSE, !.inWord = TRUE]
    ELSE IF r = BACKSLASH
    THEN [st EXCEPT !.esc = TRUE, !.inWord = TRUE]
    ELSE IF st.quote # SPACE
    THEN IF r = st.quote THEN [st EXCEPT !.quote = SPACE]
         ELSE [st EXCEPT !.cur = Append(@, r)]
    ELSE IF r = DQUOTE \/ r = SQUOTE
    THEN [st EXCEPT !.quote = r, !.inWord = TRUE]
    ELSE IF IsSpace(r)
    THEN IF st.inWord
         THEN [st EXCEPT !.words = Append(@, st.cur), !.cur = <<>>,
                         !.inWord = FALSE]
         ELSE st
    ELSE [st EXCEPT !.cur = Append(@, r), !.inWord = TRUE]

RECURSIVE refScan(_, _, _)
refScan(s, i, st) ==
    IF i > Len(s) THEN st ELSE refScan(s, i + 1, refScanStep(st, s[i]))

\* No unterminated quote and no trailing backslash.
WellFormedText(s) ==
    LET st == refScan(s, 1, refScanInit) IN st.quote = SPACE /\ ~st.esc

RefWords(s) ==
    LET st == refScan(s, 1, refScanInit)
    IN IF st.inWord THEN Append(st.words, st.cur) ELSE st.words

\* C6: for every input without an unterminated quote or trailing backslash,
\* splitWords returns exactly the words delimited by unquoted, unescaped
\* whitespace; quoted and escaped characters (an escaped space included,
\* wherever it stands in the word) stay in their word, quote and escape
\* characters are removed.
C6_SplitWordsExact ==
    (swOut.called /\ WellFormedText(swText))
        => (swOut.err = "nil" /\ swOut.words = RefWords(swText))

----------------------------------------------------------------------------
(* Command resolution as the lookup rules state it.                        *)

\* The siblings a name resolves to: the one with exactly that name if there
\* is one, otherwise every sibling the name is a prefix of.
Candidates(cmds, name) ==
    LET exact == {i \in 1..Len(cmds) : cmds[i].name = name}
    IN IF exact # {} THEN exact
       ELSE {i \in 1..Len(cmds) : HasPrefix(cmds[i].name, name)}

RECURSIVE RefGet(_, _)
RefGet(cmds, params) ==
    IF params = <<>> THEN [cmd |-> NoCommand, err |-> "no command specified"]
    ELSE LET cand == Candidates(cmds, Head(params))
         IN IF Cardinality(cand) > 1 THEN [cmd |-> NoCommand, err |-> "ambiguous"]
            ELSE IF cand = {} THEN [cmd |-> NoCommand, err |-> "not found"]
            ELSE LET c == cmds[CHOOSE i \in cand : TRUE]
                 IN IF Tail(params) = <<>> \/ c.children = <<>>
                    THEN [cmd |-> c, err |-> "nil"]
                    ELSE RefGet(c.children, Tail(params))

\* C5: Get resolves each name of a command path among its siblings to the
\* sibling with exactly that name, else to the single sibling having the name
\* as a prefix, else fails with "ambiguous" (several) or "not found" (none),
\* whatever the map iteration order.
C5_GetResolves ==
    getOut.called =>
        LET ref == RefGet(CommandSets[getIn.cmds], getIn.params)
        IN getOut.err = ref.err /\ getOut.cmd = ref.cmd

\* Get was given an abbreviated path, visited the siblings in an order other
\* than the source order, and resolved it to a command.
C5_Witness ==
    /\ getOut.called
    /\ getOut.err = "nil"
    /\ getIn.rot > 0
    /\ getIn.params = <<<<"s", "e">>, <<"n", "o">>>>
    /\ getOut.cmd.handle = "handleServiceServerNotice"

----------------------------------------------------------------------------
(* Admin gating of the service commands.                                   *)

\* Every command of the tree, subcommands included.
AllCommands ==
    {serviceCommands[i] : i \in 1..Len(serviceCommands)} \cup
    UNION {{serviceCommands[i].children[j] :
              j \in 1..Len(serviceCommands[i].children)} :
           i \in 1..Len(serviceCommands)}

\* The handlers of the commands marked admin.
AdminHandlers == {c.handle : c \in {d \in AllCommands : d.admin}} \ {"nil"}

\* C1: for a non-admin user handleServicePRIVMSG never invokes the handler of
\* a command marked admin (user create, user delete, server status, server
\* notice); a line that names such a command, in full or by abbreviation, is
\* answered with the admin error alone and no handler runs.
C1_AdminGate ==
    (svcOut.called /\ ~svcIn.admin) =>
        /\ svcOut.handled \notin AdminHandlers
        /\ LET ref == RefGet(serviceCommands, RefWords(svcIn.text))
           IN (WellFormedText(svcIn.text) /\ ref.err = "nil" /\ ref.cmd.admin)
                 => (svcOut.sent = <<AdminRequired>> /\ svcOut.handled = "nil")

\* A non-admin sent "u d", which abbreviates the admin command "user delete",
\* and got the admin error.
C1_Witness ==
    /\ svcOut.called
    /\ ~svcIn.admin
    /\ svcIn.text = <<"u", SPACE, "d">>
    /\ svcOut.sent = <<AdminRequired>>
    /\ svcOut.handled = "nil"

----------------------------------------------------------------------------
(* Membership lists.                                                       *)

\* The rank of a membership: its place in the available list.
RankOf(avail, m) == CHOOSE k \in 1..Len(avail) : avail[k] = m

\* C2: starting from an empty list, after any sequence of Add (of available
\* memberships) and Remove, a membership list holds no membership twice and
\* its elements stand in the relative order of the rank-ordered available
\* list.
C2_MembershipsSorted ==
    \A n \in DOMAIN chMembers :
        LET l == chMembers[n]
        IN /\ \A k \in 1..Len(l) : l[k] \in SeqToSet(availableMemberships)
           /\ \A k1, k2 \in 1..Len(l) :
                k1 < k2 => RankOf(availableMemberships, l[k1])
                             < RankOf(availableMemberships, l[k2])

\* Add has just put the operator membership between founder and voice.
C2_Witness ==
    /\ membLast.called
    /\ membLast.op = "Add"
    /\ membLast.nick = "alice"
    /\ membLast.m = Membership("o", "@")
    /\ chMembers["alice"] =
         <<Membership("q", "~"), Membership("o", "@"), Membership("v", "+")>>
    /\ chMembers["bob"] = <<Membership("v", "+")>>

----------------------------------------------------------------------------
(* Mode letters and their arguments.                                       *)

\* The sign in force at position p of a modestring ("" before any sign).
RECURSIVE SignAt(_, _)
SignAt(modeStr, p) ==
    IF p = 0 THEN ""
    ELSE IF modeStr[p] \in {"+", "-"} THEN modeStr[p]
    ELSE SignAt(modeStr, p - 1)

IsMembershipMode(avail, mode) == \E k \in 1..Len(avail) : avail[k].Mode = mode

\* The number of arguments the mode at position p takes: one for a
\* membership mode, a type A and a type B mode, one for a type C mode being
\* set, none otherwise.
TakesArgument(avail, modeStr, p) ==
    LET mode == modeStr[p]
    IN IF mode \in {"+", "-"} THEN 0
       ELSE IF IsMembershipMode(avail, mode) THEN 1
       ELSE IF mode \notin DOMAIN StdChannelModes THEN 0
       ELSE IF StdChannelModes[mode] \in {ModeTypeA, ModeTypeB} THEN 1
       ELSE IF StdChannelModes[mode] = ModeTypeC /\ SignAt(modeStr, p) = "+" THEN 1
       ELSE 0

\* The number of arguments taken by the modes before position p: the
\* (0-based) index of the argument of the mode at p.
RECURSIVE ArgumentIndex(_, _, _)
ArgumentIndex(avail, modeStr, p) ==
    IF p <= 1 THEN 0
    ELSE ArgumentIndex(avail, modeStr, p - 1) + TakesArgument(avail, modeStr, p - 1)

ArgumentAt(arguments, i) == IF i < Len(arguments) THEN arguments[i + 1] ELSE ""

\* C4: applyChannelModes pairs every mode letter with its own argument: a
\* type A and a type B mode take one argument set or unset, a type C mode
\* only when set, a type D mode none, so the value a modestring leaves for a
\* mode is the argument at that mode's own index and the number of arguments
\* consumed is the sum over its modes.
C4_ModeArguments ==
    (modeOut.called /\ modeOut.err = "nil" /\ ~chModes.nil) =>
        LET s == modeIn.modeStr
            n == Len(s)
        IN /\ modeOut.nextArgument =
                ArgumentIndex(availableMemberships, s, n + 1)
           /\ \A p \in 1..n :
                (/\ s[p] \in {"k", "l"}
                 /\ \A q \in (p + 1)..n : s[q] # s[p])
                  => IF SignAt(s, p) = "+"
                     THEN /\ s[p] \in DOMAIN chModes.m
                          /\ chModes.m[s[p]] =
                               ArgumentAt(modeIn.arguments,
                                   ArgumentIndex(availableMemberships, s, p))
                     ELSE s[p] \notin DOMAIN chModes.m

----------------------------------------------------------------------------
(* The store's contracts                                                   *)

\* Every row that names a parent names a row of the parent's table.
NoOrphans(db) ==
    /\ \A n \in db.Network : n.user \in UserIds(db)
    /\ \A c \in db.Channel : c.network \in NetworkIds(db)
    /\ \A r \in db.Receipt : r.network \in NetworkIds(db)

Sampled(op) == dbLast.called /\ dbLast.op = op

\* C3: in a database where stores name existing parents, no call, failed
\* or not, leaves a network without its user or a channel or delivery
\* receipt without its network; and after a successful DeleteUser the user,
\* its networks and their channels and delivery receipts are gone.
C3_NoOrphans ==
    /\ NoOrphans(DBNow)
    /\ (Sampled("DeleteUser") /\ dbLast.err = "nil") =>
         LET nets == {n.id : n \in {m \in dbLast.pre.Network : m.user = dbLast.id}}
         IN /\ dbLast.id \notin UserIds(DBNow)
            /\ \A n \in dbNetwork : n.user # dbLast.id /\ n.id \notin nets
            /\ \A c \in dbChannel : c.network \notin nets
            /\ \A r \in dbReceipt : r.network \notin nets
            /\ dbUser = {u \in dbLast.pre.User : u.id # dbLast.id}
            /\ dbNetwork = {n \in dbLast.pre.Network : n.user # dbLast.id}
            /\ dbChannel = {c \in dbLast.pre.Channel : c.network \notin nets}
            /\ dbReceipt = {r \in dbLast.pre.Receipt : r.network \notin nets}

\* A successful DeleteUser of a user who had a network with a channel and a
\* delivery receipt, beside another user who keeps a network with a channel.
C3_Witness ==
    /\ Sampled("DeleteUser") /\ dbLast.err = "nil"
    /\ \E n \in dbLast.pre.Network :
         /\ n.user = dbLast.id
         /\ \E c \in dbLast.pre.Channel : c.network = n.id
         /\ \E r \in dbLast.pre.Receipt : r.network = n.id
    /\ \E n \in dbNetwork : \E c \in dbChannel : c.network = n.id

\* The table a Store method writes, before and after the sampled call, and
\* the columns it writes from the record.
StoreTable(db) ==
    CASE dbLast.op = "StoreUser" -> db.User
      [] dbLast.op = "StoreNetwork" -> db.Network
      [] dbLast.op = "StoreChannel" -> db.Channel

HoldsRecord(row) ==
    CASE dbLast.op = "StoreUser" -> row.password = dbLast.arg.Password
      [] dbLast.op = "StoreNetwork" -> row.name = dbLast.arg.Name
      [] dbLast.op = "StoreChannel" -> row.name = dbLast.arg.Name

\* C9: a successful StoreUser, StoreNetwork or StoreChannel of a record
\* whose ID is zero inserts one row and writes the row's id into the
\* record; with a non-zero ID it updates the row of that id from the
\* record, whatever the record's username or name, and changes no other row.
C9_StoreById ==
    (/\ dbLast.called
     /\ dbLast.op \in {"StoreUser", "StoreNetwork", "StoreChannel"}
     /\ dbLast.err = "nil") =>
        LET pre == StoreTable(dbLast.pre)
            post == StoreTable(DBNow)
            ID == dbLast.arg.ID
        IN IF ID = 0
           THEN /\ dbLast.id # 0
                /\ dbLast.id \notin {r.id : r \in pre}
                /\ \E row \in post :
                     /\ row.id = dbLast.id
                     /\ HoldsRecord(row)
                     /\ post = pre \cup {row}
           ELSE /\ {r \in post : r.id # ID} = {r \in pre : r.id # ID}
                /\ {r.id : r \in post} = {r.id : r \in pre}
                /\ \A row \in post : row.id = ID => HoldsRecord(row)

\* The rows of the (network, client) pair of the sampled call.
InPair(r) == r.network = dbLast.parent /\ r.client = dbLast.client

\* C10: StoreClientDeliveryReceipts never changes the receipts of another
\* network or client; a failed call changes nothing; after a successful one
\* the pair's receipts are exactly the list given, each as many times as
\* the list holds it, for the pair of no client as for any other.
C10_ReceiptsReplaced ==
    Sampled("StoreClientDeliveryReceipts") =>
        /\ {r \in dbReceipt : ~InPair(r)} = {r \in dbLast.pre.Receipt : ~InPair(r)}
        /\ dbLast.err # "nil" => dbReceipt = dbLast.pre.Receipt
        /\ dbLast.err = "nil" =>
             \A t \in Targets, m \in MsgIds :
                Cardinality({r \in dbReceipt :
                               InPair(r) /\ r.target = t /\ r.msgid = m})
                = Cardinality({i \in DOMAIN dbLast.arg :
                                 dbLast.arg[i] = [Target |-> t, InternalMsgID |-> m]})
        /\ <<dbUser, dbNetwork, dbChannel>>
           = <<dbLast.pre.User, dbLast.pre.Network, dbLast.pre.Channel>>

\* A successful call for the pair of no client that replaces a receipt by
\* another, while a receipt of another pair is in the table.
C10_Witness ==
    /\ Sampled("StoreClientDeliveryReceipts") /\ dbLast.err = "nil"
    /\ dbLast.client = ""
    /\ dbLast.arg # <<>>
    /\ \E r \in dbLast.pre.Receipt : InPair(r) /\ r \notin dbReceipt
    /\ \E r \in dbReceipt : ~InPair(r)

----------------------------------------------------------------------------
(* Cancellation in the handlers that send to another user's inbox          *)

\* C7: in a server notice, once the send to one user's inbox was abandoned
\* because the context was cancelled, the error is recorded and the
\* broadcast event is sent to no user visited later.
C7_StopsAfterAbandon ==
    \A i \in DOMAIN bcLog :
        bcLog[i].did = "abandoned" =>
            /\ bcErr # "nil"
            /\ \A j \in DOMAIN bcLog : j > i => bcLog[j].did # "sent"

\* C8: a user update aimed at another user can return as soon as its
\* context is cancelled, at the select and at the receive from done.
C8_CancelReturns ==
    \A u \in DOMAIN updPc :
        (updPc[u] \in {"select", "done"} /\ updCtxDone[u]) => ENABLED UpdateReturn(u)

----------------------------------------------------------------------------
(* The schema upgrade                                                      *)

\* C11: upgrade never lowers the file's version; on a file whose version
\* exceeds the number of migrations it returns an error and changes
\* nothing; otherwise it returns nil with the version at that number and
\* every pending migration executed once in ascending order (the full
\* schema on a new file), or an error with version and schema as before.
C11_UpgradeAllOrNothing ==
    upLast.called =>
        /\ upVersion >= upLast.version
        /\ upLast.version > LenMigrations =>
             upLast.err # "nil" /\ upVersion = upLast.version /\ upSchema = upLast.schema
        /\ upLast.version <= LenMigrations =>
             \/ /\ upLast.err = "nil"
                /\ upVersion = LenMigrations
                /\ Len(upSchema) >= Len(upLast.schema)
                /\ SubSeq(upSchema, 1, Len(upLast.schema)) = upLast.schema
                /\ LET run == SubSeq(upSchema, Len(upLast.schema) + 1, Len(upSchema))
                   IN IF upLast.version = 0 THEN run = <<"schema">>
                      ELSE /\ Len(run) = LenMigrations - upLast.version
                           /\ \A k \in DOMAIN run : run[k] = upLast.version + k - 1
             \/ /\ upLast.err # "nil"
                /\ upVersion = upLast.version
                /\ upSchema = upLast.schema

\* upgrade has brought a file at an older version up, running more than one
\* migration.
C11_Witness ==
    /\ upLast.called /\ upLast.err = "nil"
    /\ upLast.version > 0 /\ upLast.version < LenMigrations - 1
    /\ upVersion = LenMigrations

----------------------------------------------------------------------------
(* Help and the admin commands                                             *)

\* C12: for a non-admin user no reply of help, bare, on a group or on a
\* command given in full or abbreviated, lists an admin-only command or
\* gives the usage and description of one.
C12_HelpHidesAdmin ==
    (helpOut.called /\ ~helpIn.admin) =>
        \A i \in DOMAIN helpOut.sent :
            LET msg == helpOut.sent[i]
            IN IF msg.body = "usage and desc"
               THEN msg.of \notin AdminHandlers
               ELSE \A k \in DOMAIN msg.list :
                       LET ref == RefGet(serviceCommands, msg.list[k])
                       IN ref.err = "nil" => ref.cmd.handle \notin AdminHandlers

----------------------------------------------------------------------------
(* Who may change what with user update                                    *)

\* The request names a user other than the caller.
NamesOther(in) ==
    /\ Len(in.params) > 0
    /\ in.params[1] # <<>>
    /\ in.params[1][1] # DASH
    /\ in.params[1] # in.caller

\* The request is for the caller's own user, named or not.
NamesSelf(in) ==
    \/ in.params = <<>>
    \/ in.params[1] = in.caller
    \/ (in.params[1] # <<>> /\ in.params[1][1] = DASH)

\* The spellings of the -admin flag.
IsAdminFlag(w) ==
    \E dashes \in {<<DASH>>, <<DASH, DASH>>} :
        \/ w = dashes \o W_admin
        \/ /\ Len(w) > Len(dashes \o W_admin)
           /\ SubSeq(w, 1, Len(dashes \o W_admin) + 1) = dashes \o W_admin \o <<EQUALS>>

\* Word i of params stands where a flag is read, when the flags start at
\* word start: a flag takes the next word as its value unless it carries
\* its value after "=".
RECURSIVE FlagPosition(_, _, _)
FlagPosition(params, start, i) ==
    \/ i = start
    \/ /\ i - 1 >= start
       /\ FlagPosition(params, start, i - 1)
       /\ Len(params[i - 1]) > 1 /\ params[i - 1][1] = DASH
       /\ EqualsAt(Tail(params[i - 1])) # 0
    \/ /\ i - 2 >= start
       /\ FlagPosition(params, start, i - 2)
       /\ Len(params[i - 2]) > 1 /\ params[i - 2][1] = DASH
       /\ params[i - 2] # <<DASH, DASH>>
       /\ EqualsAt(Tail(params[i - 2])) = 0

\* The request carries the -admin flag.
CarriesAdmin(in) ==
    LET start == IF in.params # <<>> /\ in.params[1] # <<>>
                    /\ in.params[1][1] # DASH THEN 2 ELSE 1
    IN \E i \in start..Len(in.params) :
           FlagPosition(in.params, start, i) /\ IsAdminFlag(in.params[i])

\* C13: a user update by a non-admin changes no record but the caller's,
\* and no user update changes the caller's own admin flag: a request of a
\* non-admin that names another user, and a request with -admin for the
\* caller's own user, return an error and change no user record.
C13_UpdateRights ==
    uuOut.called =>
        /\ ~uuOut.users[uuIn.caller].admin =>
              \A u \in UpdateUsernames \ {uuIn.caller} : uuUsers[u] = uuOut.users[u]
        /\ uuUsers[uuIn.caller].admin = uuOut.users[uuIn.caller].admin
        /\ (NamesOther(uuIn) /\ ~uuOut.users[uuIn.caller].admin) =>
              (uuOut.err # "nil" /\ uuUsers = uuOut.users)
        /\ (NamesSelf(uuIn) /\ CarriesAdmin(uuIn)) =>
              (uuOut.err # "nil" /\ uuUsers = uuOut.users)

\* An admin has asked to drop the admin flag of their own user, named in
\* the request after a new password, and was refused.
C13_Witness ==
    /\ uuOut.called
    /\ uuOut.users[uuIn.caller].admin
    /\ Len(uuIn.params) = 3
    /\ uuIn.params[1] = uuIn.caller
    /\ uuIn.params[2] = <<DASH>> \o W_admin
    /\ uuIn.params[3] = <<"f", "a", "l", "s", "e">>
    /\ uuOut.err = "cannot update -admin of own user"
    /\ uuUsers = uuOut.users

----------------------------------------------------------------------------
(* The credentials a network holds for SASL                                *)

\* C14: while every SASL command has succeeded, the network holds, in
\* memory and in its row, credentials only for its current mechanism: with
\* PLAIN no certificate and no key; with EXTERNAL a certificate and a key
\* and no PLAIN username or password; with no mechanism no credentials.
C14_OnlyCurrentMechanism ==
    ~saslFailed =>
        /\ saslRow.sasl_mechanism = toNullString(saslNet.Mechanism)
        /\ saslNet.Mechanism = "PLAIN" =>
              /\ saslNet.External = [CertBlob |-> NilBlob, PrivKeyBlob |-> NilBlob]
              /\ saslRow.sasl_external_cert = NilBlob
              /\ saslRow.sasl_external_key = NilBlob
              /\ saslRow.sasl_plain_username = toNullString(saslNet.Plain.Username)
              /\ saslRow.sasl_plain_password = toNullString(saslNet.Plain.Password)
        /\ saslNet.Mechanism = "EXTERNAL" =>
              /\ saslNet.External.CertBlob # NilBlob
              /\ saslNet.External.PrivKeyBlob # NilBlob
              /\ saslRow.sasl_external_cert = saslNet.External.CertBlob
              /\ saslRow.sasl_external_key = saslNet.External.PrivKeyBlob
              /\ saslNet.Plain = [Username |-> "", Password |-> ""]
              /\ saslRow.sasl_plain_username = "NULL"
              /\ saslRow.sasl_plain_password = "NULL"
        /\ saslNet.Mechanism = "" =>
              /\ saslNet.Plain = [Username |-> "", Password |-> ""]
              /\ saslNet.External = [CertBlob |-> NilBlob, PrivKeyBlob |-> NilBlob]
              /\ saslRow.sasl_plain_username = "NULL"
              /\ saslRow.sasl_plain_password = "NULL"
              /\ saslRow.sasl_external_cert = NilBlob
              /\ saslRow.sasl_external_key = NilBlob

----------------------------------------------------------------------------
(* The fields a network update changes                                     *)

\* C15: a network update that succeeds changes exactly the fields whose
\* flags were given: a field without its flag keeps its value, a flag given
\* with the empty string (-enabled with false) leaves the field empty
\* (false); an update that fails changes nothing.
C15_ExactlyGivenFlags ==
    nuOut.called =>
        IF nuOut.err # "nil" THEN nuNet = nuOut.net
        ELSE /\ \A f \in {"Addr", "Name", "Nick", "Username", "Pass",
                          "Realname", "Enabled"} :
                    nuNet[f] = IF nuIn.fs[f] = Nil THEN nuOut.net[f]
                               ELSE nuIn.fs[f].v
             /\ nuNet.ConnectCommands =
                    IF nuIn.fs.ConnectCommands = <<>> THEN nuOut.net.ConnectCommands
                    ELSE IF nuIn.fs.ConnectCommands = <<"">> THEN <<>>
                    ELSE nuIn.fs.ConnectCommands

\* An update with -nick "" and -enabled false and no -name has emptied the
\* nick of an enabled network and disabled it, and kept its name.
C15_Witness ==
    /\ nuOut.called /\ nuOut.err = "nil"
    /\ nuIn.fs.Nick = Ptr("") /\ nuOut.net.Nick # "" /\ nuNet.Nick = ""
    /\ nuIn.fs.Enabled = Ptr(FALSE) /\ nuOut.net.Enabled /\ ~nuNet.Enabled
    /\ nuIn.fs.Name = Nil /\ nuNet.Name = "n1"

----------------------------------------------------------------------------
(* Re-emitting a channel's modes                                           *)

\* C16: when applyChannelModes has accepted a modestring, the modes it
\* left, formatted with Format in any order of the map and applied to the
\* modes before the call, give the modes it left.
C16_FormatReapplies ==
    (modeOut.called /\ modeOut.err = "nil") =>
        \A order \in Orders(DOMAIN chModes.m) :
            LET f == Format(chModes.m, order)
                again == applyChannelModes(modeOut.modes, chMembers,
                             availableMemberships, f.modeString, f.parameters)
            IN again.err = "nil" /\ again.modes = chModes

----------------------------------------------------------------------------
(* The length of the RPL_NAMREPLY lines                                    *)

\* Each entry alone fits into a reply: its line is within the limit.
EntriesFit ==
    \A i \in DOMAIN snIn.entries :
        WireLen(NameReplyLen(snIn.nameLen, <<snIn.entries[i]>>)) <= MaxMessageLen

\* C17: when each member's entry alone fits into a reply, every
\* RPL_NAMREPLY line sent by sendNames is at most 512 bytes with its
\* terminating CR LF.
C17_NamesWithinLimit ==
    EntriesFit =>
        \A i \in DOMAIN snSent :
            snSent[i].command = "RPL_NAMREPLY" => snSent[i].bytes <= MaxMessageLen

----------------------------------------------------------------------------
(* A server notice under a cancelled context                               *)

\* C18: a server notice that has run a select with its context cancelled
\* while some user's inbox was full returns the cancellation error, and has
\* sent the broadcast event to each user's inbox at most once.
C18_CancelledWhileFull ==
    (bcOut.called /\ \E i \in DOMAIN bcLog : bcLog[i].ctxDone /\ bcLog[i].full # {}) =>
        /\ bcOut.err = "context canceled"
        /\ \A i, j \in DOMAIN bcLog :
               (bcLog[i].did = "sent" /\ bcLog[j].did = "sent"
                  /\ bcLog[i].user = bcLog[j].user) => i = j

----------------------------------------------------------------------------
(* user delete stops the actor before it deletes the rows                  *)

\* C19: DeleteUser is called only for a user whose stop was asked for by
\* the same call and whose actor has ended; a user whose rows are gone has
\* no running actor; and a call that gave an unknown username has stopped
\* nothing and deleted nothing.
C19_StopBeforeDelete ==
    /\ \A e \in udLog :
           e.op = "DeleteUser" =>
               /\ ~e.running
               /\ \E s \in udLog : s.op = "stop" /\ s.by = e.by /\ s.user = e.user
    /\ \A u \in ServerUsers :
           (\A r \in udDB.User : r.username # u) => ~udRunning[u]
    /\ \A c \in Deleters :
           (udPc[c] = "returned" /\ udErr[c] = "unknown username") =>
               \A e \in udLog : e.by # c

\* u1 has deleted u2: the stop was asked for while u2's actor ran, and
\* DeleteUser has removed u2's rows.
C19_Witness ==
    /\ udPc["u1"] = "returned" /\ udErr["u1"] = "nil" /\ udTarget["u1"] = "u2"
    /\ [by |-> "u1", op |-> "stop", user |-> "u2", running |-> TRUE] \in udLog
    /\ \A r \in udDB.User : r.username # "u2"
    /\ \A n \in udDB.Network : n.user # UserID("u2")

----------------------------------------------------------------------------
(* The reply to a command line that fails                                  *)

\* The command line fails: it does not tokenize, names no command or
\* several, names an admin command for a non-admin, or its handler returns
\* an error.
LineFails ==
    \/ ~WellFormedText(svcIn.text)
    \/ LET ref == RefGet(serviceCommands, RefWords(svcIn.text))
       IN \/ ref.err # "nil"
          \/ (ref.cmd.admin /\ ~svcIn.admin)
    \/ svcOut.herr # "nil"

\* C20: a command line that fails is answered with exactly one message,
\* and its text starts with "error:".
C20_OneErrorReply ==
    (svcOut.called /\ LineFails) =>
        /\ Len(svcOut.sent) = 1
        /\ svcOut.sent[1].prefix = "error: "

\* The handler of "network create" has returned an error, and the one
\* reply is that error.
C20_Witness ==
    /\ svcOut.called
    /\ svcOut.handled = "handleServiceNetworkCreate"
    /\ svcOut.herr = "handler error"
    /\ svcOut.sent = <<ServiceMsg("error: ", "handler error")>>

----------------------------------------------------------------------------
(* The errors of the tokenizer                                             *)

\* C21: splitWords returns an error exactly when the line ends inside a
\* quoted span or right after an unescaped backslash; the error names a
\* defect the line has, and no words come with it.
C21_SplitWordsErrors ==
    swOut.called =>
        LET st == refScan(swText, 1, refScanInit)
        IN /\ (swOut.err # "nil") <=> (st.quote # SPACE \/ st.esc)
           /\ swOut.err \in {"nil", "unterminated quoted string",
                             "unterminated backslash sequence"}
           /\ swOut.err = "unterminated quoted string" => st.quote # SPACE
           /\ swOut.err = "unterminated backslash sequence" => st.esc
           /\ swOut.err # "nil" => swOut.words = <<>>

\* A line with a closed quoted span that ends in a backslash got the
\* backslash error.
C21_Witness ==
    /\ swOut.called
    /\ swText = <<DQUOTE, "a", DQUOTE, "a", BACKSLASH>>
    /\ swOut.err = "unterminated backslash sequence"
    /\ swOut.words = <<>>

----------------------------------------------------------------------------
(* Readers and writers of the store                                        *)

\* C22: while a write operation of the store (Store*, Delete*,
\* StoreClientDeliveryReceipts, upgrade, Close) runs, no other operation
\* runs on the handle; only read operations (List*, GetUser, Stats) run
\* together.
C22_WritesExclude ==
    \A g, h \in DBCallers :
        (g # h /\ lkPc[g] = "body" /\ lkPc[h] = "body") =>
            (lkOp[g] \in ReadOps /\ lkOp[h] \in ReadOps)

\* ListUsers and Stats run at the same time while a StoreChannel waits.
C22_Witness ==
    /\ lkPc["g1"] = "body" /\ lkOp["g1"] = "ListUsers"
    /\ lkPc["g2"] = "body" /\ lkOp["g2"] = "Stats"
    /\ lkPc["g3"] = "pending" /\ lkOp["g3"] = "StoreChannel"

----------------------------------------------------------------------------
(* detach-after through the store                                          *)

\* C23: a channel's detach-after is never negative, and storing and
\* loading it gives zero only for zero.
C23_DetachAfterKept ==
    /\ cuCh.DetachAfter >= 0
    /\ LoadDetachAfter(CeilSeconds(cuCh.DetachAfter)) = 0 => cuCh.DetachAfter = 0

----------------------------------------------------------------------------
(* What forwardChannel sends, and in which order                           *)

\* The replies about the topic that the channel calls for.
TopicReplies ==
    IF fcIn.Topic = "" THEN <<"RPL_NOTOPIC">>
    ELSE IF fcIn.TopicWho = "nil" THEN <<"RPL_TOPIC">>
    ELSE <<"RPL_TOPIC", "RPL_TOPICWHOTIME">>

\* C24: forwardChannel sends nothing for a channel that is not complete;
\* for a complete one it sends the topic replies, then RPL_NAMREPLY lines,
\* and RPL_ENDOFNAMES once, last.
C24_ForwardOrder ==
    LET cmds == [i \in DOMAIN snSent |-> snSent[i].command]
        n == Len(TopicReplies)
    IN /\ ~fcIn.complete => snSent = <<>>
       /\ fcPc = "sendNames" =>
             /\ Len(cmds) >= n /\ SubSeq(cmds, 1, n) = TopicReplies
             /\ \A i \in (n + 1)..Len(cmds) :
                    \/ cmds[i] = "RPL_NAMREPLY"
                    \/ cmds[i] = "RPL_ENDOFNAMES" /\ i = Len(cmds)
             /\ snI = Len(snIn.entries) + 2 => cmds[Len(cmds)] = "RPL_ENDOFNAMES"

\* A complete channel with a topic, its setter and members has been
\* forwarded with two RPL_NAMREPLY lines.
C24_Witness ==
    /\ fcPc = "sendNames" /\ snI = Len(snIn.entries) + 2
    /\ fcIn.Topic # "" /\ fcIn.TopicWho # "nil"
    /\ Len(snSent) = 5
    /\ snSent[3].command = "RPL_NAMREPLY" /\ snSent[4].command = "RPL_NAMREPLY"

----------------------------------------------------------------------------
(* The arguments of a modestring that name members                         *)

\* C25: needMarshaling is exactly the set of the indexes of the arguments
\* of membership modes, whatever other modes the modestring mixes in, and
\* the member named by the argument at that index is the one whose
\* membership changes.
C25_NeedMarshaling ==
    (modeOut.called /\ modeOut.err = "nil") =>
        LET s == modeIn.modeStr
            n == Len(s)
            idx(p) == ArgumentIndex(availableMemberships, s, p)
        IN /\ modeOut.needMarshaling =
                {idx(p) : p \in {q \in 1..n :
                                   IsMembershipMode(availableMemberships, s[q])}}
           /\ \A p \in 1..n :
                (/\ IsMembershipMode(availableMemberships, s[p])
                 /\ \A q \in (p + 1)..n : s[q] # s[p]
                 /\ ArgumentAt(modeIn.arguments, idx(p)) \in DOMAIN chMembers)
                  => LET ms == chMembers[ArgumentAt(modeIn.arguments, idx(p))]
                     IN (\E k \in 1..Len(ms) : ms[k].Mode = s[p])
                          <=> SignAt(s, p) = "+"

----------------------------------------------------------------------------
(* Splitting a JOIN                                                        *)

\* C26: every channel given to Join is in exactly one of the messages, and
\* in each message the i-th key is the key given for the i-th channel, the
\* channels past the key list being those given without a key.
C26_JoinKeepsPairs ==
    jnOut.called =>
        LET msgs == jnOut.msgs
            at == {<<m, i>> \in (1..Len(msgs)) \X (1..MaxChannels + 1) :
                     i <= Len(msgs[m].Params[1])}
        IN /\ \A k \in 1..Len(jnIn.channels) :
                Cardinality({a \in at : msgs[a[1]].Params[1][a[2]]
                                          = jnIn.channels[k]}) = 1
           /\ \A a \in at :
                \E k \in 1..Len(jnIn.channels) :
                    /\ msgs[a[1]].Params[1][a[2]] = jnIn.channels[k]
                    /\ LET params == msgs[a[1]].Params
                           keys == IF Len(params) = 2 THEN params[2] ELSE <<>>
                       IN IF a[2] <= Len(keys)
                          THEN keys[a[2]] = jnIn.keys[k]
                          ELSE jnIn.keys[k] = NoKey

\* Join has split the channels into two messages, one of them with both
\* keyed and keyless channels, given in another order than sent.
C26_Witness ==
    /\ jnOut.called /\ Len(jnOut.msgs) = 2
    /\ \E m \in 1..2 :
         /\ Len(jnOut.msgs[m].Params) = 2
         /\ Len(jnOut.msgs[m].Params[1]) > Len(jnOut.msgs[m].Params[2])
    /\ jnIn.keys[1] = NoKey

----------------------------------------------------------------------------
(* Network commands with a bad address or connect command                  *)

\* The flags name an address with a scheme outside the supported ones, or
\* a connect command that is no raw IRC command (a single empty
\* -connect-command being the form that clears the list).
BadNetworkFlags(fs) ==
    \/ /\ fs.Addr # Nil /\ Len(fs.Addr.v) = 2
       /\ fs.Addr.v[1] \notin {"ircs", "irc+insecure", "unix"}
    \/ /\ fs.ConnectCommands # <<"">>
       /\ \E i \in DOMAIN fs.ConnectCommands :
            ~ParseMessageOk(fs.ConnectCommands[i])

----------------------------------------------------------------------------
(* A channel update that fails                                             *)

\* C28: after a channel update that returned an error, the settings of the
\* channel in memory are those from before the command, and they are those
\* of its row.
C28_FailedUpdateKeepsChannel ==
    (cuLast.called /\ cuLast.err # "nil") =>
        /\ cuCh = cuLast.ch
        /\ cuRow = ChannelRow(cuCh)

----------------------------------------------------------------------------
(* A modestring that is refused                                            *)

\* C29: when applyChannelModes returns an error, the modes of the channel
\* and the memberships of its members are those from before the call.
C29_RefusedModesChangeNothing ==
    (modeOut.called /\ modeOut.err # "nil") =>
        /\ chModes = modeOut.modes
        /\ chMembers = modeOut.members

----------------------------------------------------------------------------
(* Two admins updating each other                                          *)

\* u's actor is inside handleUserUpdate and can take no step of its own:
\* at the select with the target's inbox full and its context live, or at
\* the receive from done with nothing sent on it.
UpdateBlocked(u) ==
    \/ updPc[u] = "select" /\ ~HasRoom(updTarget[u]) /\ ~updCtxDone[u]
    \/ updPc[u] = "done" /\ updDone[u] = <<>>

\* C30: when two admins update each other at the same time, their actors
\* are never both blocked in their handlers, each waiting for the other.
C30_NoMutualWait ==
    ~(\A u \in Admins : UpdateBlocked(u) /\ updTarget[u] = Other(u))

====
